---- MODULE Spec2Model ----
(***************************************************************************)
(* Model of the conversational session engine of KH-AI-V2 (src/App.tsx and *)
(* the storage / history helpers of src/components/IconButton.tsx).        *)
(*                                                                         *)
(* React state is modelled as the variables below; every handler is one    *)
(* action that runs from its entry to its first real suspension point      *)
(* (awaiting the stream, awaiting the title call).  Text is a sequence of  *)
(* tokens (words / fragments), so concatenation is \o and "" is << >>.     *)
(***************************************************************************)
EXTENDS Integers, Sequences, FiniteSets, TLC

(* ------------------------------ bounds --------------------------------- *)
MaxClock == 4       \* wall-clock readings that hand out a new instant
MaxChunks == 1      \* fragments one stream may deliver
MaxGens == 2        \* generations (submits + regenerations) ever started
MaxSessions == 2    \* sessions ever created by handleNewChat / start-up
MaxWorkers == 1     \* title workers ever launched
MaxChats == 3       \* contexts a GeminiService ever creates
MaxSent == 2        \* messages sent through one of its contexts

(* ----------------------------- constants ------------------------------- *)
USER == "user"
AI == "ai"
NoId == <<"none", 0>>
NoText == << >>
NoError == << >>
StopMarker == " (Stopped)"
StoppedByUser == "Generation stopped by user."
GreetingText == <<"Hello! I'm your KH AI assistant.">>
TitleCeiling == 50

(* ------------------------------ helpers -------------------------------- *)
\* String.prototype.trim on a token sequence: " " is a whitespace token
RECURSIVE TrimLeft(_)
TrimLeft(s) == IF s # << >> /\ Head(s) = " " THEN TrimLeft(Tail(s)) ELSE s
RECURSIVE TrimRight(_)
TrimRight(s) ==
  IF s # << >> /\ s[Len(s)] = " " THEN TrimRight(SubSeq(s, 1, Len(s) - 1)) ELSE s
Trim(s) == TrimRight(TrimLeft(s))

\* title.startsWith("New Chat")
StartsWithNewChat(title) ==
  Len(title) >= 2 /\ title[1] = "New" /\ title[2] = "Chat"

\* `New Chat ${now.toLocaleTimeString(...)}`
PlaceholderTitle == <<"New", "Chat", "hh:mm">>

\* string length of a token sequence joined by spaces; "LONG50" stands for
\* a 50-character word, every other token for a 4-character one
TokLen(tok) == IF tok = "LONG50" THEN 50 ELSE 4
RECURSIVE StrLen(_)
StrLen(s) ==
  IF s = << >> THEN 0
  ELSE TokLen(Head(s)) + (IF Len(s) > 1 THEN 1 ELSE 0) + StrLen(Tail(s))

\* index of the first element with this id, 0 when there is none
\* (Array.prototype.find / findIndex)
FindIndex(s, id) ==
  IF \E i \in DOMAIN s : s[i].id = id
  THEN CHOOSE i \in DOMAIN s : s[i].id = id /\ \A j \in 1..(i - 1) : s[j].id # id
  ELSE 0

\* Array.prototype.sort((a,b) => b.lastUpdatedAt - a.lastUpdatedAt): stable,
\* descending by lastUpdatedAt
RECURSIVE InsertDesc(_, _)
InsertDesc(x, s) ==
  IF s = << >> THEN <<x>>
  ELSE IF Head(s).lastUpdatedAt >= x.lastUpdatedAt
       THEN <<Head(s)>> \o InsertDesc(x, Tail(s))
       ELSE <<x>> \o s
RECURSIVE SortDesc(_)
SortDesc(s) ==
  IF s = << >> THEN << >>
  ELSE InsertDesc(s[Len(s)], SortDesc(SubSeq(s, 1, Len(s) - 1)))

(* --------------------------- data constructors ------------------------- *)
\* ChatMessage (types.ts as used in App.tsx); an absent optional field is
\* the empty sequence
Message(id, sender, timestamp, textPart, fileParts, isLoading, err) ==
  [id |-> id, sender |-> sender, timestamp |-> timestamp, textPart |-> textPart,
   fileParts |-> fileParts, isLoading |-> isLoading, error |-> err]

ChatId(t) == <<"chat", t>>
UserMsgId(t) == <<"user", t>>
AiMsgId(t) == <<"ai", t>>
GreetingId(t) == <<"ai-greeting-chat", t>>

GreetingMessage(t) == Message(GreetingId(t), AI, t, GreetingText, << >>, FALSE, NoError)

\* ChatHistoryItem created by handleNewChat / the start-up effect
NewHistoryItem(t, initialMessages) ==
  [id |-> ChatId(t), title |-> PlaceholderTitle, messages |-> initialMessages,
   createdAt |-> t, lastUpdatedAt |-> t]

(* --------------------------- pure functions ---------------------------- *)
\* utils: convertToGeminiHistory
HasParts(msg) == Trim(msg.textPart) # << >> \/ msg.fileParts # << >>
GeminiEntry(msg) ==
  [role |-> IF msg.sender = USER THEN "user" ELSE "model",
   text |-> Trim(msg.textPart), files |-> msg.fileParts]
convertToGeminiHistory(messages) ==
  LET historyMessages == SelectSeq(messages, LAMBDA m : ~m.isLoading /\ m.error = NoError)
      withParts == SelectSeq(historyMessages, HasParts)
  IN [i \in DOMAIN withParts |-> GeminiEntry(withParts[i])]

\* the alternation check both context-opening sites apply to the converted
\* history
AlternatesFromUser(h) ==
  /\ h # << >> => h[1].role = "user"
  /\ \A i \in 1..(Len(h) - 1) : h[i].role # h[i + 1].role
\* faulty variant: the converted history is passed on as it is
ValidatedHistoryUnchecked(h) == h
ValidatedHistory(h) == IF AlternatesFromUser(h) THEN h ELSE << >>

\* utils: generateChatTitle
generateChatTitle(text, files) ==
  IF text # << >>
  THEN IF Len(text) > 5 THEN SubSeq(text, 1, 5) \o <<"...">> ELSE text
  ELSE IF files # << >>
       THEN IF Len(files) = 1 THEN <<files[1]>>
            ELSE <<"n Files (e.g.", files[1]>>
       ELSE <<"Chat", "hh:mm">>

\* extractUserFriendlyErrorMessage for an Error object whose message is msg
extractUserFriendlyErrorMessage(msg) ==
  IF msg = "stream aborted" THEN StoppedByUser ELSE msg

(* ------------------- remote conversation contexts ---------------------- *)
\* ai.chats.create({history}): a context keeps raw (the converted history
\* before validation), seed (the history it was created with) and log, the
\* roles it has been given so far.  Contexts live in slots; a slot that
\* neither chatSession nor an in-flight generation refers to is garbage.
CtxSlots == 1..(MaxGens + 1)
NoCtx == [open |-> FALSE, raw |-> << >>, seed |-> << >>, log |-> << >>]
RolesOf(h) == [i \in DOMAIN h |-> h[i].role]
NewContext(messages) ==
  LET raw == convertToGeminiHistory(messages)
      seed == ValidatedHistory(raw)
  IN [open |-> TRUE, raw |-> raw, seed |-> seed, log |-> RolesOf(seed)]

InFlight(gs) == {g \in DOMAIN gs : gs[g].pc = "stream"}

\* history kept in a generation: stopRequested tells that the stop button
\* was pressed while the generation was streaming for the active session
\* and that the user has done nothing else since
ClearStops(gs) == [g \in DOMAIN gs |-> [gs[g] EXCEPT !.stopRequested = FALSE]]
MarkStops(gs, chatId) ==
  [g \in DOMAIN gs |->
     IF gs[g].pc = "stream" /\ gs[g].chatId = chatId
     THEN [gs[g] EXCEPT !.stopRequested = TRUE] ELSE gs[g]]
RefSlots(gs, session) ==
  {gs[g].ctx : g \in InFlight(gs)} \cup (IF session = 0 THEN {} ELSE {session})
FreeSlot(gs, session) ==
  CHOOSE k \in CtxSlots : /\ k \notin RefSlots(gs, session)
                         /\ \A j \in CtxSlots : j < k => j \in RefSlots(gs, session)
Collect(cs, gs, session) ==
  [k \in CtxSlots |-> IF k \in RefSlots(gs, session) THEN cs[k] ELSE NoCtx]

(* ------------------------------ state ---------------------------------- *)
VARIABLES
  now,                      \* last instant handed out by Date.now()
  aiInstance,               \* TRUE when the GoogleGenAI client exists
  initialDataLoaded,
  storedHistories,          \* localStorage[CHAT_HISTORIES_KEY]
  storedActiveId,           \* localStorage[ACTIVE_CHAT_ID_KEY]
  chatHistories,
  activeChatIdState,
  currentMessages,
  isSendingMessage,
  chatSession,              \* index into ctxs, 0 when null
  editingMessageId,
  generatingTitleForChatId,
  abortRef,                 \* streamAbortControllerRef.current: controller, 0 when null
  signalAborted,            \* signal.aborted of the controller abortRef refers to
  created,                  \* sessions created so far (bounds the model)
  gens,                     \* the generations started so far
  ctxs,                     \* the remote conversation contexts opened so far
  workers,                  \* the title workers launched so far
  opTrail,                  \* history: the user operations deleteAll / newSession /
                            \* emptyEdit / selectMissing just issued, with ":error"
                            \* when the operation put up the error banner
  geminiService             \* a GeminiService object (services/geminiService.ts),
                            \* which App.tsx never constructs or calls: its
                            \* chatInstances map, with the history fields
                            \* chatsCreated and lastCall

vars == <<now, aiInstance, initialDataLoaded, storedHistories, storedActiveId,
          chatHistories, activeChatIdState, currentMessages, isSendingMessage,
          chatSession, editingMessageId, generatingTitleForChatId,
          abortRef, signalAborted, created, gens, ctxs, workers, opTrail,
          geminiService>>

\* the state of the application component alone
appVars == <<now, aiInstance, initialDataLoaded, storedHistories, storedActiveId,
             chatHistories, activeChatIdState, currentMessages, isSendingMessage,
             chatSession, editingMessageId, generatingTitleForChatId,
             abortRef, signalAborted, created, gens, ctxs, workers, opTrail>>

\* the session ids the service is called with
ServiceSessionIds == {"s1", "s2"}

\* new GeminiService(apiKey): an empty chatInstances map (an absent key is
\* the empty sequence); no call made yet
NewGeminiService ==
  [chatInstances |-> [sessionId \in ServiceSessionIds |-> << >>],
   chatsCreated |-> 0,
   lastCall |-> [op |-> "none", sessionId |-> "", messages |-> << >>, outcome |-> ""]]

\* what an earlier run left in localStorage: nothing, or one conversation
\* of two completed turns under its client-side title
StoredConversation ==
  [id |-> ChatId(-4), title |-> <<"hi">>,
   messages |-> << GreetingMessage(-4),
                   Message(UserMsgId(-3), USER, -3, <<"hi">>, << >>, FALSE, NoError),
                   Message(AiMsgId(-3), AI, -2, <<"s1f1">>, << >>, FALSE, NoError),
                   Message(UserMsgId(-1), USER, -1, <<"more">>, << >>, FALSE, NoError),
                   Message(AiMsgId(-1), AI, 0, <<"s2f1">>, << >>, FALSE, NoError) >>,
   createdAt |-> -4, lastUpdatedAt |-> 0]
StoredInputs ==
  { [histories |-> << >>, activeId |-> NoId],
    [histories |-> <<StoredConversation>>, activeId |-> ChatId(-4)] }

\* a stored session that has no greeting and still carries the placeholder
\* title (the only kind of session for which the title worker is launched)
StoredPlaceholderSession ==
  [id |-> ChatId(0), title |-> PlaceholderTitle, messages |-> << >>,
   createdAt |-> 0, lastUpdatedAt |-> 0]

InitWith(inputs, clients) ==
  /\ now = 0
  /\ aiInstance \in clients
  /\ initialDataLoaded = FALSE
  /\ \E st \in inputs :
       /\ storedHistories = st.histories
       /\ storedActiveId = st.activeId
  /\ chatHistories = << >>
  /\ activeChatIdState = NoId
  /\ currentMessages = << >>
  /\ isSendingMessage = FALSE
  /\ chatSession = 0
  /\ editingMessageId = NoId
  /\ generatingTitleForChatId = NoId
  /\ abortRef = 0
  /\ signalAborted = FALSE
  /\ created = 0
  /\ gens = << >>
  /\ ctxs = [k \in CtxSlots |-> NoCtx]
  /\ workers = << >>
  /\ opTrail = ""
  /\ geminiService = NewGeminiService

Init == InitWith(StoredInputs, BOOLEAN)

\* an earlier run left two sessions: the conversation and, older, a session
\* as handleNewChat creates it
StoredTwoSessions ==
  [histories |-> <<StoredConversation, NewHistoryItem(-6, <<GreetingMessage(-6)>>)>>,
   activeId |-> ChatId(-4)]
InitSessions == InitWith({StoredTwoSessions}, {TRUE})

InitTitle ==
  InitWith({[histories |-> <<StoredPlaceholderSession>>, activeId |-> ChatId(0)]}, {TRUE})

(* ------------------------------ actions -------------------------------- *)
\* the instants a handler that reads the clock may see
NextInstants == IF now < MaxClock THEN {now + 1} ELSE {}

\* setActiveChatId: what it does to the stream abort controller
SendingAfterSwitch(ref, sending) == IF ref # 0 THEN FALSE ELSE sending

\* initializeAndSetChatSession(messages, aiInstance) followed by the
\* state it leaves: the new chatSession and the context table
SessionAfterInit(messages, gs) ==
  IF aiInstance THEN FreeSlot(gs, 0) ELSE 0
CtxsAfterInit(messages, gs) ==
  IF aiInstance
  THEN Collect([ctxs EXCEPT ![FreeSlot(gs, 0)] = NewContext(messages)], gs, FreeSlot(gs, 0))
  ELSE Collect(ctxs, gs, 0)

\* storage.ts: what localStorage[CHAT_HISTORIES_KEY] can hold besides what
\* saveChatHistories wrote.  The stored value is kept as the sequence of its
\* items; a text JSON.parse cannot read is the single item SyntaxErrorItem,
\* an item that lacks a field is a record without that field.
SyntaxErrorItem == [syntaxError |-> TRUE]
\* new Date(undefined): Invalid Date, a value no instant of the clock equals
InvalidDate == -999
\* item.messages.map(...) throws a TypeError when item.messages is undefined
ParseThrows(item) == "syntaxError" \in DOMAIN item \/ "messages" \notin DOMAIN item
\* parseChatHistoryItem: { ...item, messages: ..., createdAt: new Date(item.createdAt),
\* lastUpdatedAt: new Date(item.lastUpdatedAt) } for an item that has messages
parseChatHistoryItem(item) ==
  IF "createdAt" \in DOMAIN item THEN item
  ELSE [id |-> item.id, title |-> item.title, messages |-> item.messages,
        createdAt |-> InvalidDate, lastUpdatedAt |-> item.lastUpdatedAt]
\* loadChatHistories: try { JSON.parse(...).map(parseChatHistoryItem) }
\* catch { return [] }
loadChatHistories(serializedHistories) ==
  IF \E i \in DOMAIN serializedHistories : ParseThrows(serializedHistories[i])
  THEN << >>
  ELSE [i \in DOMAIN serializedHistories |-> parseChatHistoryItem(serializedHistories[i])]

\* loadData's chatToLoad with the session lastActiveId ignored
chatToLoadFirst(loadedHistories, lastActiveId) ==
  IF loadedHistories # << >> THEN <<loadedHistories[1]>> ELSE << >>

\* loadData's chatToLoad: the loaded session with the persisted id, else the
\* first of the (sorted) list; the empty sequence stands for undefined
chatToLoadOf(loadedHistories, lastActiveId) ==
  IF FindIndex(loadedHistories, lastActiveId) # 0
  THEN <<loadedHistories[FindIndex(loadedHistories, lastActiveId)]>>
  ELSE IF loadedHistories # << >> THEN <<loadedHistories[1]>> ELSE << >>

\* Effect 2 (loadData): runs once, before any handler
LoadData(t) ==
  /\ ~initialDataLoaded
  /\ initialDataLoaded' = TRUE
  /\ LET loaded == SortDesc(loadChatHistories(storedHistories))
         chatToLoad == chatToLoadOf(loaded, storedActiveId)
         newItem == NewHistoryItem(t, <<GreetingMessage(t)>>)
     IN IF chatToLoad # << >>
        THEN /\ chatHistories' = loaded
             /\ activeChatIdState' = chatToLoad[1].id
             /\ storedActiveId' = chatToLoad[1].id
             /\ currentMessages' = chatToLoad[1].messages
             /\ chatSession' = SessionAfterInit(chatToLoad[1].messages, gens)
             /\ ctxs' = CtxsAfterInit(chatToLoad[1].messages, gens)
             /\ UNCHANGED <<now, created>>
        ELSE IF aiInstance
        THEN /\ t \in NextInstants
             /\ chatHistories' = SortDesc(<<newItem>> \o loaded)
             /\ activeChatIdState' = newItem.id
             /\ storedActiveId' = newItem.id
             /\ currentMessages' = newItem.messages
             /\ chatSession' = SessionAfterInit(newItem.messages, gens)
             /\ ctxs' = CtxsAfterInit(newItem.messages, gens)
             /\ now' = t
             /\ created' = created + 1
        ELSE /\ chatHistories' = loaded
             /\ activeChatIdState' = NoId
             /\ storedActiveId' = NoId
             /\ currentMessages' = << >>
             /\ chatSession' = 0
             /\ UNCHANGED <<ctxs, now, created>>
  /\ UNCHANGED <<aiInstance, storedHistories, isSendingMessage, editingMessageId,
                 generatingTitleForChatId, abortRef, signalAborted, gens, workers,
                 opTrail, geminiService>>

\* handleNewChat(aiInstance), from the sidebar (enabled only with a client)
\* or from the delete handlers; prev, ref, ab, sending are the values the
\* caller has already produced
NewChatEffect(t, prev, ref, sending) ==
  LET newItem == NewHistoryItem(t, <<GreetingMessage(t)>>)
      updatedHistories == SortDesc(<<newItem>> \o prev)
  IN /\ chatHistories' = updatedHistories
     /\ storedHistories' = updatedHistories
     /\ activeChatIdState' = newItem.id
     /\ storedActiveId' = newItem.id
     /\ editingMessageId' = NoId
     /\ signalAborted' = FALSE
     /\ created' = created + 1
     /\ abortRef' = 0
     /\ isSendingMessage' = SendingAfterSwitch(ref, sending)
     /\ currentMessages' = newItem.messages
     /\ chatSession' = SessionAfterInit(newItem.messages, gens)
     /\ ctxs' = CtxsAfterInit(newItem.messages, gens)
     /\ now' = t

handleNewChat(t) ==
  /\ initialDataLoaded
  /\ aiInstance
  /\ created < MaxSessions
  /\ NewChatEffect(t, chatHistories, abortRef, isSendingMessage)
  /\ gens' = ClearStops(gens)
  /\ opTrail' = IF opTrail = "deleteAll" THEN "deleteAll;newSession" ELSE ""
  /\ UNCHANGED geminiService
  /\ UNCHANGED <<aiInstance, initialDataLoaded, generatingTitleForChatId, workers>>

\* handleSelectChat(chatIdToSelect), from the sidebar list
handleSelectChat(chatIdToSelect) ==
  /\ initialDataLoaded
  /\ aiInstance
  /\ LET i == FindIndex(chatHistories, chatIdToSelect)
     IN /\ i # 0
        /\ activeChatIdState' = chatHistories[i].id
        /\ storedActiveId' = chatHistories[i].id
        /\ editingMessageId' = NoId
        /\ signalAborted' = FALSE
        /\ abortRef' = 0
        /\ isSendingMessage' = SendingAfterSwitch(abortRef, isSendingMessage)
        /\ currentMessages' = chatHistories[i].messages
        /\ chatSession' = SessionAfterInit(chatHistories[i].messages, gens)
        /\ ctxs' = CtxsAfterInit(chatHistories[i].messages, gens)
  /\ gens' = ClearStops(gens)
  /\ opTrail' = ""
  /\ UNCHANGED geminiService
  /\ UNCHANGED <<now, aiInstance, initialDataLoaded, storedHistories, chatHistories,
                 generatingTitleForChatId, created, workers>>

\* handleStopGeneration, reached through the stop button ChatInput shows
\* while isLoading
handleStopGeneration ==
  /\ initialDataLoaded
  /\ isSendingMessage
  /\ abortRef # 0
  /\ ~signalAborted
  /\ signalAborted' = TRUE
  /\ gens' = MarkStops(gens, activeChatIdState)
  /\ opTrail' = ""
  /\ UNCHANGED geminiService
  /\ UNCHANGED <<now, aiInstance, initialDataLoaded, storedHistories, storedActiveId,
                 chatHistories, activeChatIdState, currentMessages, isSendingMessage,
                 chatSession, editingMessageId, generatingTitleForChatId,
                 abortRef, created, ctxs, workers>>

\* handleStartEdit, from the pencil button of a USER message that has text
handleStartEdit(messageId) ==
  /\ initialDataLoaded
  /\ \E i \in DOMAIN currentMessages :
       /\ currentMessages[i].id = messageId
       /\ currentMessages[i].sender = USER
       /\ currentMessages[i].textPart # << >>
  /\ editingMessageId # messageId
  /\ editingMessageId' = messageId
  /\ opTrail' = ""
  /\ UNCHANGED geminiService
  /\ UNCHANGED <<now, aiInstance, initialDataLoaded, storedHistories, storedActiveId,
                 chatHistories, activeChatIdState, currentMessages, isSendingMessage,
                 chatSession, generatingTitleForChatId, abortRef, signalAborted,
                 created, gens, ctxs, workers>>

\* handleCancelEdit
handleCancelEdit ==
  /\ initialDataLoaded
  /\ editingMessageId # NoId
  /\ editingMessageId' = NoId
  /\ opTrail' = ""
  /\ UNCHANGED geminiService
  /\ UNCHANGED <<now, aiInstance, initialDataLoaded, storedHistories, storedActiveId,
                 chatHistories, activeChatIdState, currentMessages, isSendingMessage,
                 chatSession, generatingTitleForChatId, abortRef, signalAborted,
                 created, gens, ctxs, workers>>

(* ----------------------- turn submission (new message) ----------------- *)
\* the text of the k-th fragment the remote model streams for generation g
FragTable ==
  << <<"g1f1", "g1f2", "g1f3", "g1f4">>, <<"g2f1", "g2f2", "g2f3", "g2f4">>,
     <<"g3f1", "g3f2", "g3f3", "g3f4">>, <<"g4f1", "g4f2", "g4f3", "g4f4">>,
     <<"g5f1", "g5f2", "g5f3", "g5f4">> >>
Frag(g, k) == FragTable[g][k]

\* what the user can type / attach
SubmitTexts == { <<"hi">> }
TitleSubmitTexts == { <<"hi">>, <<"New", "Chat", "pls">> }
SubmitFiles == { << >> }
\* Error messages a failing remote call can carry
TransportErrors == { "Network down", "stream aborted" }

\* streamAbortControllerRef.current?.signal.aborted
RefAborted == abortRef # 0 /\ signalAborted

\* faulty variant: when no message has the id, the last displayed message
\* is replaced
ReplaceByIdOrLast(messages, id, newMsg) ==
  [i \in DOMAIN messages |->
     IF messages[i].id = id THEN newMsg
     ELSE IF i = Len(messages) /\ ~\E k \in DOMAIN messages : messages[k].id = id
     THEN newMsg
     ELSE messages[i]]
\* faulty variant: the message is left as it was
ReplaceByIdNowhere(messages, id, newMsg) == messages
ReplaceById(messages, id, newMsg) ==
  [i \in DOMAIN messages |-> IF messages[i].id = id THEN newMsg ELSE messages[i]]

\* .filter((item, index, self) => index === self.findIndex(t => t.id === item.id))
RECURSIVE DedupeById(_)
DedupeById(messages) ==
  IF messages = << >> THEN << >>
  ELSE LET init == DedupeById(SubSeq(messages, 1, Len(messages) - 1))
           last == messages[Len(messages)]
       IN IF \E i \in DOMAIN init : init[i].id = last.id THEN init ELSE Append(init, last)

\* faulty variant: the reply is left out of the committed list
MessagesWithReplyDropped(messages, userMessage, aiMessageId, reply) ==
  IF \E i \in DOMAIN messages : messages[i].id = userMessage.id
  THEN messages ELSE Append(messages, userMessage)
\* the session-store update both the success and the error path of a new
\* message apply to the session the generation was started in
MessagesWithReply(messages, userMessage, aiMessageId, reply) ==
  LET messagesWithUser ==
        IF \E i \in DOMAIN messages : messages[i].id = userMessage.id
        THEN messages ELSE Append(messages, userMessage)
      messagesWithoutOldPlaceholder ==
        SelectSeq(messagesWithUser, LAMBDA m : m.id # aiMessageId \/ m.sender # AI)
  IN DedupeById(Append(messagesWithoutOldPlaceholder, reply))

\* shouldAttemptAiTitleGeneration, from the chatHistories of the render
shouldAttemptAiTitleGeneration(histories, chatId) ==
  LET i == FindIndex(histories, chatId)
  IN /\ i # 0
     /\ StartsWithNewChat(histories[i].title)
     /\ ~ \E k \in DOMAIN histories[i].messages :
            LET m == histories[i].messages[k]
            IN m.sender = AI /\ m.textPart # << >> /\ ~m.isLoading

TitleLaunches(gs) == Cardinality({g \in DOMAIN gs : gs[g].shouldTitle})

\* history: the session is as handleNewChat creates it, the greeting alone
\* under the placeholder title
IsFreshSession(h) ==
  /\ h.title = PlaceholderTitle
  /\ h.messages = <<GreetingMessage(h.createdAt)>>

\* handleSendMessage, new-message branch, up to `await sendMessageStream`
\* (ChatInput.handleSubmitOrStop calls it only while isLoading is false)
handleSendMessage(text, files, t) ==
  /\ initialDataLoaded
  /\ ~isSendingMessage
  /\ editingMessageId = NoId
  /\ Trim(text) # << >> \/ files # << >>
  /\ aiInstance /\ activeChatIdState # NoId
  /\ ~(isSendingMessage /\ abortRef = 0)
  /\ Len(gens) < MaxGens
  /\ LET currentActiveChatId == activeChatIdState
         g == Len(gens) + 1
         found == FindIndex(chatHistories, currentActiveChatId)
         reinit == chatSession = 0
         session == IF reinit THEN FreeSlot(gens, 0) ELSE chatSession
         ctxs1 == IF reinit
                  THEN [ctxs EXCEPT ![session] = NewContext(chatHistories[found].messages)]
                  ELSE ctxs
         userMessage == Message(UserMsgId(t), USER, t, Trim(text), files, FALSE, NoError)
         should == shouldAttemptAiTitleGeneration(chatHistories, currentActiveChatId)
         aiPlaceholderMessage == Message(AiMsgId(t), AI, t, NoText, << >>, TRUE, NoError)
         newHistories ==
           [i \in DOMAIN chatHistories |->
              LET h == chatHistories[i]
              IN IF h.id = currentActiveChatId
                 THEN [h EXCEPT !.title = IF StartsWithNewChat(h.title) /\ ~should
                                          THEN generateChatTitle(userMessage.textPart,
                                                                 userMessage.fileParts)
                                          ELSE h.title,
                                !.messages = Append(h.messages, userMessage),
                                !.lastUpdatedAt = t]
                 ELSE h]
         gen == [kind |-> "new", chatId |-> currentActiveChatId,
                 aiMessageId |-> aiPlaceholderMessage.id, userMessage |-> userMessage,
                 editId |-> NoId, origAi |-> aiPlaceholderMessage, ctx |-> session,
                 acc |-> NoText, pc |-> "stream", n |-> 0, shouldTitle |-> should,
                 outcome |-> "none", frags |-> << >>, finalText |-> << >>,
                 stopRequested |-> FALSE, cause |-> "none", finalError |-> NoError,
                 idxR |-> 0, lenBefore |-> 0, lenFinal |-> 0,
                 fresh |-> found # 0 /\ IsFreshSession(chatHistories[found])]
         gens1 == Append(ClearStops(gens), gen)
     IN /\ reinit => found # 0
        /\ should => TitleLaunches(gens) < MaxWorkers
        /\ now' = t
        /\ currentMessages' = currentMessages \o <<userMessage, aiPlaceholderMessage>>
        /\ chatHistories' = SortDesc(newHistories)
        /\ isSendingMessage' = TRUE
        /\ chatSession' = session
        /\ abortRef' = g
        /\ signalAborted' = FALSE
        /\ gens' = gens1
        /\ ctxs' = Collect([ctxs1 EXCEPT ![session].log = Append(@, "user")],
                           gens1, session)
  /\ opTrail' = ""
  /\ UNCHANGED geminiService
  /\ UNCHANGED <<aiInstance, initialDataLoaded, storedHistories, storedActiveId,
                 activeChatIdState, editingMessageId, generatingTitleForChatId,
                 workers, created>>

(* --------------------------- the stream loop --------------------------- *)
\* one iteration of `for await (const chunk of stream)` that applies the
\* fragment (both the new-message loop and the regeneration loop)
StreamChunk(g) ==
  /\ g \in InFlight(gens)
  /\ gens[g].n < MaxChunks
  /\ ~RefAborted
  /\ LET accumulated == gens[g].acc \o <<Frag(g, gens[g].n + 1)>>
     IN /\ gens' = [gens EXCEPT ![g].acc = accumulated,
                                ![g].n = @ + 1,
                                ![g].frags = Append(@, Frag(g, gens[g].n + 1))]
        /\ currentMessages' =
             [i \in DOMAIN currentMessages |->
                IF currentMessages[i].id = gens[g].aiMessageId
                THEN [currentMessages[i] EXCEPT !.textPart = accumulated, !.isLoading = TRUE]
                ELSE currentMessages[i]]
  /\ UNCHANGED <<now, aiInstance, initialDataLoaded, storedHistories, storedActiveId,
                 chatHistories, activeChatIdState, isSendingMessage, chatSession,
                 editingMessageId, generatingTitleForChatId, abortRef, signalAborted,
                 created, ctxs, workers, opTrail, geminiService>>

\* generateAndSetAiTitle up to its await: the worker it leaves in flight
LaunchesTitle(gen, text) ==
  gen.kind = "new" /\ gen.shouldTitle /\ text # << >> /\ gen.chatId # NoId /\ aiInstance

\* error: streamAbortControllerRef.current?.signal.aborted
\*          ? "Generation stopped by user." : undefined
FinalError(aborted) == IF aborted THEN <<StoppedByUser>> ELSE NoError

\* the text and the error field the catch blocks give the failed message
CatchText(kind, accumulated, errorText) ==
  IF kind = "new" THEN accumulated \o <<"Error: ", errorText>>
  ELSE accumulated \o <<"Error during regeneration. ", errorText>>
\* faulty variant: the failed message carries no error detail
CatchErrorSilent(kind, errorText) == NoError
\* faulty variant: an abort error is reported as a user stop
CatchErrorAbortAsStop(kind, errorText) ==
  IF errorText = StoppedByUser THEN <<StoppedByUser>>
  ELSE IF kind = "new" THEN <<"AI Error: ", errorText>>
  ELSE <<"AI Regeneration Error: ", errorText>>
CatchError(kind, errorText) ==
  IF kind = "new" THEN <<"AI Error: ", errorText>>
  ELSE <<"AI Regeneration Error: ", errorText>>

\* faulty variant: the regenerated reply is appended instead of replaced
RegeneratedMessagesAppended(messages, aiMessageId, finalMessage, editId, userMessage) ==
  Append([i \in DOMAIN messages |->
            IF messages[i].id = editId THEN userMessage ELSE messages[i]],
         finalMessage)
\* h.messages.map(msg => msg.id === aiMessageToRegenerateId ? finalMessage
\*                       : (msg.id === editingMessageId ? updatedUserMessage : msg))
RegeneratedMessages(messages, aiMessageId, finalMessage, editId, userMessage) ==
  [i \in DOMAIN messages |->
     IF messages[i].id = aiMessageId THEN finalMessage
     ELSE IF messages[i].id = editId THEN userMessage
     ELSE messages[i]]

\* faulty variant: the commit writes into every session
IsCommitTargetAlways(h, chatId) == TRUE
\* prevHistories.map(h => { if (h.id === currentActiveChatId) ... return h; })
IsCommitTarget(h, chatId) == h.id = chatId

\* history: the number of messages the session of a generation holds in
\* the store, 0 when the session is gone
SessionLen(histories, chatId) ==
  IF FindIndex(histories, chatId) = 0 THEN 0
  ELSE Len(histories[FindIndex(histories, chatId)].messages)
SessionTitle(histories, chatId) ==
  IF FindIndex(histories, chatId) = 0 THEN << >>
  ELSE histories[FindIndex(histories, chatId)].title

\* history: the session already holds a completed model answer
HasCompletedAnswer(histories, chatId) ==
  /\ FindIndex(histories, chatId) # 0
  /\ \E m \in {histories[FindIndex(histories, chatId)].messages[k] :
                   k \in DOMAIN histories[FindIndex(histories, chatId)].messages} :
       /\ m.sender = AI /\ ~m.isLoading /\ m.error = NoError /\ m.textPart # NoText
       /\ m.id[1] # "ai-greeting-chat"

\* the code after the loop: finalAiMessage / finalRegeneratedAiMessage, the
\* store update with sort and save, the title worker launch, the session
\* re-initialisation of the regeneration path, and the finally block.
\* text is the accumulated text, streamEnded tells a drained stream from a
\* break.
Finalize(g, t, text, streamEnded) ==
  LET gen == gens[g]
      err == FinalError(RefAborted)
      finalMessage ==
        IF gen.kind = "new"
        THEN Message(gen.aiMessageId, AI, t, text, << >>, FALSE, err)
        ELSE [gen.origAi EXCEPT !.textPart = text, !.timestamp = t, !.isLoading = FALSE,
                                !.error = err, !.fileParts = << >>]
      newMessages(h) ==
        IF gen.kind = "new"
        THEN MessagesWithReply(h.messages, gen.userMessage, gen.aiMessageId, finalMessage)
        ELSE RegeneratedMessages(h.messages, gen.aiMessageId, finalMessage,
                                 gen.editId, gen.userMessage)
      newHistories ==
        SortDesc([i \in DOMAIN chatHistories |->
                    IF IsCommitTarget(chatHistories[i], gen.chatId)
                    THEN [chatHistories[i] EXCEPT !.messages = newMessages(chatHistories[i]),
                                                  !.lastUpdatedAt = t]
                    ELSE chatHistories[i]])
      found == FindIndex(newHistories, gen.chatId)
      gens1 == [gens EXCEPT ![g].pc = "done", ![g].acc = text, ![g].finalText = text,
                            ![g].outcome = IF err = NoError THEN "complete" ELSE "cancelled",
                            ![g].cause = IF streamEnded THEN "drained" ELSE "break",
                            ![g].finalError = finalMessage.error,
                            ![g].lenFinal = SessionLen(newHistories, gen.chatId)]
      ctxs1 == IF streamEnded THEN [ctxs EXCEPT ![gen.ctx].log = Append(@, "model")] ELSE ctxs
      reinit == gen.kind = "regen" /\ found # 0
      session == IF reinit THEN FreeSlot(gens1, 0) ELSE chatSession
  IN /\ now' = t
     /\ currentMessages' = ReplaceById(currentMessages, gen.aiMessageId, finalMessage)
     /\ chatHistories' = newHistories
     /\ storedHistories' = newHistories
     /\ IF LaunchesTitle(gen, text)
        THEN /\ generatingTitleForChatId' = gen.chatId
             /\ workers' = Append(workers,
                  [chatId |-> gen.chatId, pc |-> "await", wrote |-> FALSE,
                   suitable |-> FALSE, titleBefore |-> << >>, titleAfter |-> << >>,
                   titleAtLaunch |-> SessionTitle(chatHistories, gen.chatId),
                   launchStatus |-> IF err = NoError THEN "COMPLETE" ELSE "CANCELLED",
                   answeredAtLaunch |-> HasCompletedAnswer(chatHistories, gen.chatId)])
        ELSE UNCHANGED <<generatingTitleForChatId, workers>>
     /\ chatSession' = session
     /\ ctxs' = IF reinit
                THEN Collect([ctxs1 EXCEPT ![session] = NewContext(newHistories[found].messages)],
                             gens1, session)
                ELSE Collect(ctxs1, gens1, session)
     /\ gens' = gens1
     /\ isSendingMessage' = FALSE
     /\ abortRef' = 0
     /\ signalAborted' = FALSE
     /\ UNCHANGED <<aiInstance, initialDataLoaded, storedActiveId, activeChatIdState,
                    editingMessageId, created, opTrail, geminiService>>

\* a loop iteration that finds the signal aborted: append the stop marker,
\* break, finalize
StreamChunkAborted(g, t) ==
  /\ g \in InFlight(gens)
  /\ gens[g].n < MaxChunks
  /\ RefAborted
  /\ Finalize(g, t, gens[g].acc \o <<StopMarker>>, FALSE)

\* the stream is drained: the loop ends, finalize
StreamEnd(g, t) ==
  /\ g \in InFlight(gens)
  /\ Finalize(g, t, gens[g].acc, TRUE)

\* sendMessageStream or the iteration throws: the catch and finally blocks
StreamFail(g, t, msg) ==
  /\ g \in InFlight(gens)
  /\ LET gen == gens[g]
         errorText == extractUserFriendlyErrorMessage(msg)
         text == CatchText(gen.kind, gen.acc, errorText)
         err == CatchError(gen.kind, errorText)
         errorMessage ==
           IF gen.kind = "new"
           THEN Message(gen.aiMessageId, AI, t, text, << >>, FALSE, err)
           ELSE [gen.origAi EXCEPT !.textPart = text, !.isLoading = FALSE, !.error = err,
                                   !.timestamp = t, !.fileParts = << >>]
         newMessages(h) ==
           IF gen.kind = "new"
           THEN MessagesWithReply(h.messages, gen.userMessage, gen.aiMessageId, errorMessage)
           ELSE RegeneratedMessages(h.messages, gen.aiMessageId, errorMessage,
                                    gen.editId, gen.userMessage)
         newHistories ==
           SortDesc([i \in DOMAIN chatHistories |->
                       IF IsCommitTarget(chatHistories[i], gen.chatId)
                       THEN [chatHistories[i] EXCEPT !.messages = newMessages(chatHistories[i]),
                                                     !.lastUpdatedAt = t]
                       ELSE chatHistories[i]])
         gens1 == [gens EXCEPT ![g].pc = "done", ![g].finalText = text,
                               ![g].outcome = "errored", ![g].cause = "throw",
                               ![g].finalError = errorMessage.error,
                               ![g].lenFinal = SessionLen(newHistories, gen.chatId)]
     IN /\ now' = t
        /\ currentMessages' = ReplaceById(currentMessages, gen.aiMessageId, errorMessage)
        /\ chatHistories' = newHistories
        /\ storedHistories' = newHistories
        /\ gens' = gens1
        /\ ctxs' = Collect(ctxs, gens1, chatSession)
        /\ isSendingMessage' = FALSE
        /\ abortRef' = 0
        /\ signalAborted' = FALSE
  /\ UNCHANGED <<aiInstance, initialDataLoaded, storedActiveId, activeChatIdState,
                 chatSession, editingMessageId, generatingTitleForChatId, created, workers,
                 opTrail, geminiService>>

(* ------------------------- edit and regenerate -------------------------- *)
EditTexts == { <<"hola">> }

\* the reset the regeneration target gets when the edit is accepted
ResetForRegeneration(msg) ==
  [msg EXCEPT !.textPart = NoText, !.isLoading = TRUE, !.error = NoError, !.fileParts = << >>]

\* faulty variant: the edited message loses its attachments
updatedUserMessageWithoutFiles(originalUserMessage, trimmedInput, t) ==
  [originalUserMessage EXCEPT !.textPart = trimmedInput, !.timestamp = t,
                              !.fileParts = << >>]
\* { ...originalUserMessage, textPart: trimmedInput, timestamp: new Date() }
updatedUserMessageOf(originalUserMessage, trimmedInput, t) ==
  [originalUserMessage EXCEPT !.textPart = trimmedInput, !.timestamp = t]

\* faulty variant: the context is seeded up to and including the edited
\* message
historyContextThroughEdited(messages, editedMessageIndex) ==
  SubSeq(messages, 1, editedMessageIndex)
\* activeHistoryItem.messages.slice(0, editedMessageIndex), 1-based here
historyContextForRegeneration(messages, editedMessageIndex) ==
  SubSeq(messages, 1, editedMessageIndex - 1)

\* handleSendMessage, edit branch (ChatInput.handleSubmitOrStop calls it only
\* while isLoading is false and the input is not blank): the whole
\* setChatHistories updater, including the start of the regeneration up
\* to `await regenChatSession.sendMessageStream`
handleSaveEdit(text, t) ==
  /\ initialDataLoaded
  /\ ~isSendingMessage
  /\ editingMessageId # NoId
  /\ Trim(text) # << >>
  /\ LET currentActiveChatId == activeChatIdState
         hi == FindIndex(chatHistories, currentActiveChatId)
         activeHistoryItem == chatHistories[hi]
         editedMessageIndex == FindIndex(activeHistoryItem.messages, editingMessageId)
         originalUserMessage == activeHistoryItem.messages[editedMessageIndex]
         updatedUserMessage == updatedUserMessageOf(originalUserMessage, Trim(text), t)
         updatedHistories ==
           [i \in DOMAIN chatHistories |->
              IF chatHistories[i].id = currentActiveChatId
              THEN [chatHistories[i] EXCEPT
                      !.messages = ReplaceById(@, editingMessageId, updatedUserMessage),
                      !.lastUpdatedAt = t]
              ELSE chatHistories[i]]
         subsequentAiMessageIndex == editedMessageIndex + 1
         hasTarget == /\ Len(activeHistoryItem.messages) >= subsequentAiMessageIndex
                      /\ activeHistoryItem.messages[subsequentAiMessageIndex].sender = AI
         aiMessageToRegenerate == activeHistoryItem.messages[subsequentAiMessageIndex]
         g == Len(gens) + 1
         regenSlot == FreeSlot(gens, chatSession)
         gen == [kind |-> "regen", chatId |-> currentActiveChatId,
                 aiMessageId |-> aiMessageToRegenerate.id,
                 userMessage |-> updatedUserMessage, editId |-> editingMessageId,
                 origAi |-> aiMessageToRegenerate, ctx |-> regenSlot, acc |-> NoText,
                 pc |-> "stream", n |-> 0, shouldTitle |-> FALSE, outcome |-> "none",
                 frags |-> << >>, finalText |-> << >>, stopRequested |-> FALSE,
                 cause |-> "none", finalError |-> NoError,
                 idxR |-> subsequentAiMessageIndex,
                 lenBefore |-> Len(activeHistoryItem.messages), lenFinal |-> 0,
                 fresh |-> FALSE]
         gens1 == Append(ClearStops(gens), gen)
         regenContext ==
           NewContext(historyContextForRegeneration(activeHistoryItem.messages,
                                                    editedMessageIndex))
         sortedHistories == SortDesc(updatedHistories)
         found == FindIndex(sortedHistories, currentActiveChatId)
     IN IF hi = 0 \/ editedMessageIndex = 0
        THEN /\ gens' = ClearStops(gens)
             /\ UNCHANGED <<now, storedHistories, chatHistories, currentMessages,
                            isSendingMessage, chatSession, abortRef, signalAborted, ctxs>>
        ELSE IF hasTarget /\ aiInstance
        THEN /\ Len(gens) < MaxGens
             /\ now' = t
             /\ isSendingMessage' = TRUE
             /\ currentMessages' =
                  [i \in DOMAIN currentMessages |->
                     IF currentMessages[i].id = aiMessageToRegenerate.id
                     THEN ResetForRegeneration(currentMessages[i])
                     ELSE IF currentMessages[i].id = editingMessageId
                     THEN updatedUserMessage
                     ELSE currentMessages[i]]
             /\ chatHistories' =
                  [i \in DOMAIN updatedHistories |->
                     IF updatedHistories[i].id = currentActiveChatId
                     THEN [updatedHistories[i] EXCEPT
                             !.messages =
                               [k \in DOMAIN @ |->
                                  IF @[k].id = aiMessageToRegenerate.id
                                  THEN [ResetForRegeneration(@[k]) EXCEPT !.timestamp = t]
                                  ELSE @[k]],
                             !.lastUpdatedAt = t]
                     ELSE updatedHistories[i]]
             /\ abortRef' = g
             /\ signalAborted' = FALSE
             /\ gens' = gens1
             /\ ctxs' = Collect([ctxs EXCEPT
                                   ![regenSlot] = [regenContext EXCEPT
                                                     !.log = Append(@, "user")]],
                                gens1, chatSession)
             /\ UNCHANGED <<storedHistories, chatSession>>
        ELSE /\ now' = t
             /\ currentMessages' = ReplaceById(currentMessages, editingMessageId,
                                               updatedUserMessage)
             /\ chatHistories' = sortedHistories
             /\ storedHistories' = sortedHistories
             /\ chatSession' = IF found # 0
                               THEN SessionAfterInit(sortedHistories[found].messages, gens)
                               ELSE chatSession
             /\ ctxs' = IF found # 0
                        THEN CtxsAfterInit(sortedHistories[found].messages, gens)
                        ELSE ctxs
             /\ gens' = ClearStops(gens)
             /\ UNCHANGED <<isSendingMessage, abortRef, signalAborted>>
  /\ editingMessageId' = NoId
  /\ opTrail' = ""
  /\ UNCHANGED geminiService
  /\ UNCHANGED <<aiInstance, initialDataLoaded, storedActiveId, activeChatIdState,
                 generatingTitleForChatId, created, workers>>

(* ----------------------------- title worker ---------------------------- *)
TitleCandidates == { <<"Trip", "Plan">>, << >>, <<" ">>, <<"LONG50">> }

\* faulty variant: the worker writes whatever the title is
TitleMaySetAnyTitle(title) == TRUE
\* the setChatHistories updater of generateAndSetAiTitle
TitleMaySet(title) == StartsWithNewChat(title)
\* faulty variant: a session that is missing from the list is put back
\* under the new title
HistoriesWithTitleRestoring(histories, chatId, potentialTitle) ==
  IF \E i \in DOMAIN histories : histories[i].id = chatId
  THEN [i \in DOMAIN histories |->
          IF histories[i].id = chatId /\ StartsWithNewChat(histories[i].title)
          THEN [histories[i] EXCEPT !.title = potentialTitle]
          ELSE histories[i]]
  ELSE Append(histories, [id |-> chatId, title |-> potentialTitle, messages |-> << >>,
                          createdAt |-> 0, lastUpdatedAt |-> 0])
\* faulty variant: writing the title refreshes lastUpdatedAt
HistoriesWithTitleTouching(histories, chatId, potentialTitle) ==
  [i \in DOMAIN histories |->
     IF histories[i].id = chatId /\ StartsWithNewChat(histories[i].title)
     THEN [histories[i] EXCEPT !.title = potentialTitle, !.lastUpdatedAt = @ + 1]
     ELSE histories[i]]
HistoriesWithTitle(histories, chatId, potentialTitle) ==
  [i \in DOMAIN histories |->
     IF histories[i].id = chatId /\ TitleMaySet(histories[i].title)
     THEN [histories[i] EXCEPT !.title = potentialTitle]
     ELSE histories[i]]

\* faulty variant: a title of exactly the ceiling length is accepted
SuitableTitleUpToCeiling(potentialTitle) ==
  potentialTitle # << >> /\ StrLen(potentialTitle) <= TitleCeiling
\* potentialTitle && potentialTitle.length > 0 && potentialTitle.length < 50
SuitableTitle(potentialTitle) ==
  potentialTitle # << >> /\ StrLen(potentialTitle) < TitleCeiling

\* generateAndSetAiTitle after `await generateContent` resolved with
\* response.text = candidate
TitleReturn(w, candidate) ==
  /\ w \in DOMAIN workers
  /\ workers[w].pc = "await"
  /\ LET chatId == workers[w].chatId
         potentialTitle == Trim(candidate)
         suitable == SuitableTitle(potentialTitle)
         newHistories == HistoriesWithTitle(chatHistories, chatId, potentialTitle)
         didChange == \E i \in DOMAIN newHistories :
                        /\ \/ i \notin DOMAIN chatHistories
                           \/ newHistories[i].title # chatHistories[i].title
                        /\ newHistories[i].id = chatId
     IN /\ IF suitable /\ didChange
           THEN /\ chatHistories' = SortDesc(newHistories)
                /\ storedHistories' = SortDesc(newHistories)
           ELSE UNCHANGED <<chatHistories, storedHistories>>
        /\ workers' = [workers EXCEPT
                         ![w].pc = "done",
                         ![w].wrote = suitable /\ didChange,
                         ![w].suitable = suitable,
                         ![w].titleBefore = SessionTitle(chatHistories, chatId),
                         ![w].titleAfter =
                           IF suitable /\ didChange
                           THEN SessionTitle(SortDesc(newHistories), chatId)
                           ELSE SessionTitle(chatHistories, chatId)]
  /\ generatingTitleForChatId' = NoId
  /\ UNCHANGED <<now, aiInstance, initialDataLoaded, storedActiveId, activeChatIdState,
                 currentMessages, isSendingMessage, chatSession, editingMessageId,
                 abortRef, signalAborted, created, gens, ctxs, opTrail, geminiService>>

\* generateAndSetAiTitle when the remote call rejects: catch, finally
TitleFail(w) ==
  /\ w \in DOMAIN workers
  /\ workers[w].pc = "await"
  /\ workers' = [workers EXCEPT ![w].pc = "done"]
  /\ generatingTitleForChatId' = NoId
  /\ UNCHANGED <<now, aiInstance, initialDataLoaded, storedHistories, storedActiveId,
                 chatHistories, activeChatIdState, currentMessages, isSendingMessage,
                 chatSession, editingMessageId, abortRef, signalAborted, created, gens, ctxs,
                 opTrail, geminiService>>

(* ------------------------------- delete -------------------------------- *)
\* handleDeleteChat(chatIdToDelete), from the sidebar.  eager tells whether
\* React ran the setChatHistories updater (and its save) inside the call,
\* before loadChatHistories() is read, or deferred it to the next render;
\* it is deferred whenever handleCancelEdit has just queued an update.
handleDeleteChat(chatIdToDelete, eager, t) ==
  /\ initialDataLoaded
  /\ aiInstance
  /\ FindIndex(chatHistories, chatIdToDelete) # 0
  /\ editingMessageId # NoId => ~eager
  /\ LET sortedRemainingHistories ==
           SortDesc(SelectSeq(chatHistories, LAMBDA h : h.id # chatIdToDelete))
         wasActive == activeChatIdState = chatIdToDelete
         sending1 == SendingAfterSwitch(abortRef, isSendingMessage)
         currentHistories ==
           SortDesc(IF eager THEN sortedRemainingHistories ELSE storedHistories)
         nextActiveChat == currentHistories[1]
     IN IF ~wasActive
        THEN /\ chatHistories' = sortedRemainingHistories
             /\ storedHistories' = sortedRemainingHistories
             /\ editingMessageId' = NoId
             /\ UNCHANGED <<now, storedActiveId, activeChatIdState, currentMessages,
                            isSendingMessage, chatSession, abortRef, signalAborted,
                            created, ctxs>>
        ELSE IF currentHistories # << >>
        THEN /\ chatHistories' = sortedRemainingHistories
             /\ storedHistories' = sortedRemainingHistories
             /\ editingMessageId' = NoId
             /\ signalAborted' = FALSE
             /\ abortRef' = 0
             /\ isSendingMessage' = sending1
             /\ activeChatIdState' = nextActiveChat.id
             /\ storedActiveId' = nextActiveChat.id
             /\ currentMessages' = nextActiveChat.messages
             /\ chatSession' = SessionAfterInit(nextActiveChat.messages, gens)
             /\ ctxs' = CtxsAfterInit(nextActiveChat.messages, gens)
             /\ UNCHANGED <<now, created>>
        ELSE /\ t \in NextInstants
             /\ created < MaxSessions
             /\ NewChatEffect(t, sortedRemainingHistories, abortRef, sending1)
  /\ gens' = ClearStops(gens)
  /\ opTrail' = ""
  /\ UNCHANGED geminiService
  /\ UNCHANGED <<aiInstance, initialDataLoaded, generatingTitleForChatId, workers>>

\* faulty variant: the list is not cleared before the new chat is added
handleDeleteAllChatsKeeping(t) ==
  /\ initialDataLoaded
  /\ aiInstance
  /\ created < MaxSessions
  /\ NewChatEffect(t, chatHistories, abortRef, SendingAfterSwitch(abortRef, isSendingMessage))
  /\ gens' = ClearStops(gens)
  /\ opTrail' = "deleteAll"
  /\ UNCHANGED geminiService
  /\ UNCHANGED <<aiInstance, initialDataLoaded, generatingTitleForChatId, workers>>
\* handleDeleteAllChats, from the sidebar: clears the list, saves the empty
\* list and calls handleNewChat
handleDeleteAllChats(t) ==
  /\ initialDataLoaded
  /\ aiInstance
  /\ created < MaxSessions
  /\ NewChatEffect(t, << >>, abortRef, SendingAfterSwitch(abortRef, isSendingMessage))
  /\ gens' = ClearStops(gens)
  /\ opTrail' = "deleteAll"
  /\ UNCHANGED geminiService
  /\ UNCHANGED <<aiInstance, initialDataLoaded, generatingTitleForChatId, workers>>

(* --------------------------- specification ----------------------------- *)
SessionIds == {chatHistories[i].id : i \in DOMAIN chatHistories}
MessageIds == {currentMessages[i].id : i \in DOMAIN currentMessages}

Next ==
  \/ \E t \in NextInstants \cup {now} : LoadData(t)
  \/ \E t \in NextInstants : handleNewChat(t)
  \/ \E id \in SessionIds : handleSelectChat(id)
  \/ handleStopGeneration
  \/ \E id \in MessageIds : handleStartEdit(id)
  \/ handleCancelEdit
  \/ \E text \in SubmitTexts, files \in SubmitFiles, t \in NextInstants :
       handleSendMessage(text, files, t)
  \/ \E text \in EditTexts, t \in NextInstants : handleSaveEdit(text, t)
  \/ \E g \in DOMAIN gens : StreamChunk(g)
  \/ \E g \in DOMAIN gens, t \in NextInstants : StreamChunkAborted(g, t)
  \/ \E g \in DOMAIN gens, t \in NextInstants : StreamEnd(g, t)
  \/ \E g \in DOMAIN gens, t \in NextInstants, msg \in TransportErrors : StreamFail(g, t, msg)
  \/ \E id \in SessionIds, eager \in BOOLEAN, t \in NextInstants \cup {now} :
       handleDeleteChat(id, eager, t)
  \/ \E t \in NextInstants : handleDeleteAllChats(t)

Spec == Init /\ [][Next]_vars

\* the same handlers together with the title worker, started from the
\* stored placeholder session and with the second user text
NextTitle ==
  \/ \E t \in NextInstants \cup {now} : LoadData(t)
  \/ \E t \in NextInstants : handleNewChat(t)
  \/ \E id \in SessionIds : handleSelectChat(id)
  \/ handleStopGeneration
  \/ \E id \in MessageIds : handleStartEdit(id)
  \/ handleCancelEdit
  \/ \E text \in TitleSubmitTexts, files \in SubmitFiles, t \in NextInstants :
       handleSendMessage(text, files, t)
  \/ \E text \in EditTexts, t \in NextInstants : handleSaveEdit(text, t)
  \/ \E g \in DOMAIN gens : StreamChunk(g)
  \/ \E g \in DOMAIN gens, t \in NextInstants : StreamChunkAborted(g, t)
  \/ \E g \in DOMAIN gens, t \in NextInstants : StreamEnd(g, t)
  \/ \E g \in DOMAIN gens, t \in NextInstants, msg \in TransportErrors : StreamFail(g, t, msg)
  \/ \E w \in DOMAIN workers, candidate \in TitleCandidates : TitleReturn(w, candidate)
  \/ \E w \in DOMAIN workers : TitleFail(w)
  \/ \E id \in SessionIds, eager \in BOOLEAN, t \in NextInstants \cup {now} :
       handleDeleteChat(id, eager, t)
  \/ \E t \in NextInstants : handleDeleteAllChats(t)

SpecTitle == InitTitle /\ [][NextTitle]_vars

\* the handlers that work on the stored sessions (no session is created
\* or deleted), started from two stored sessions
NextSessions ==
  \/ \E t \in NextInstants \cup {now} : LoadData(t)
  \/ \E id \in SessionIds : handleSelectChat(id)
  \/ handleStopGeneration
  \/ \E id \in MessageIds : handleStartEdit(id)
  \/ handleCancelEdit
  \/ \E text \in SubmitTexts, files \in SubmitFiles, t \in NextInstants :
       handleSendMessage(text, files, t)
  \/ \E text \in EditTexts, t \in NextInstants : handleSaveEdit(text, t)
  \/ \E g \in DOMAIN gens : StreamChunk(g)
  \/ \E g \in DOMAIN gens, t \in NextInstants : StreamChunkAborted(g, t)
  \/ \E g \in DOMAIN gens, t \in NextInstants : StreamEnd(g, t)
  \/ \E g \in DOMAIN gens, t \in NextInstants, msg \in TransportErrors : StreamFail(g, t, msg)

SpecSessions == InitSessions /\ [][NextSessions]_vars

\* the handlers that act on one session, when the wall clock may hand out
\* again the instant it handed out last (Date.now() has millisecond
\* resolution and is not monotonic) to a submit or to a failing call
ClockReadings == NextInstants \cup {now}
NextClock ==
  \/ \E t \in NextInstants \cup {now} : LoadData(t)
  \/ \E id \in SessionIds : handleSelectChat(id)
  \/ handleStopGeneration
  \/ \E id \in MessageIds : handleStartEdit(id)
  \/ handleCancelEdit
  \/ \E text \in SubmitTexts, files \in SubmitFiles, t \in ClockReadings :
       handleSendMessage(text, files, t)
  \/ \E text \in EditTexts, t \in NextInstants : handleSaveEdit(text, t)
  \/ \E g \in DOMAIN gens : StreamChunk(g)
  \/ \E g \in DOMAIN gens, t \in NextInstants : StreamChunkAborted(g, t)
  \/ \E g \in DOMAIN gens, t \in NextInstants : StreamEnd(g, t)
  \/ \E g \in DOMAIN gens, t \in ClockReadings, msg \in TransportErrors :
       StreamFail(g, t, msg)

SpecClock == Init /\ [][NextClock]_vars

(* ------------------------------ start-up -------------------------------- *)
\* stored values an earlier run, another version or another program may
\* have left: a text that is not JSON, a session without messages, a
\* session without createdAt, and two well-formed sessions stored oldest
\* first, with the id of the older one, a stale id or no id as last active
StoredWithoutMessages ==
  [id |-> ChatId(-4), title |-> <<"hi">>, createdAt |-> -4, lastUpdatedAt |-> 0]
StoredWithoutCreatedAt ==
  [id |-> ChatId(-4), title |-> <<"hi">>,
   messages |-> StoredConversation.messages, lastUpdatedAt |-> 0]
StoredOldestFirst == <<NewHistoryItem(-6, <<GreetingMessage(-6)>>), StoredConversation>>
StoredLoadInputs ==
  { [histories |-> <<SyntaxErrorItem>>, activeId |-> ChatId(-4)],
    [histories |-> <<StoredConversation, StoredWithoutMessages>>, activeId |-> ChatId(-4)],
    [histories |-> <<StoredWithoutCreatedAt>>, activeId |-> ChatId(-4)],
    [histories |-> StoredOldestFirst, activeId |-> ChatId(-6)],
    [histories |-> StoredOldestFirst, activeId |-> ChatId(-9)],
    [histories |-> StoredOldestFirst, activeId |-> NoId],
    [histories |-> << >>, activeId |-> ChatId(-9)] }
InitLoad == InitWith(StoredLoadInputs, BOOLEAN)

\* start-up followed by the handlers of a conversation
NextLoad ==
  \/ \E t \in NextInstants \cup {now} : LoadData(t)
  \/ \E id \in SessionIds : handleSelectChat(id)
  \/ handleStopGeneration
  \/ \E text \in SubmitTexts, files \in SubmitFiles, t \in NextInstants :
       handleSendMessage(text, files, t)
  \/ \E g \in DOMAIN gens : StreamChunk(g)
  \/ \E g \in DOMAIN gens, t \in NextInstants : StreamChunkAborted(g, t)
  \/ \E g \in DOMAIN gens, t \in NextInstants : StreamEnd(g, t)
  \/ \E g \in DOMAIN gens, t \in NextInstants, msg \in TransportErrors : StreamFail(g, t, msg)

SpecLoad == InitLoad /\ [][NextLoad]_vars

(* --------------------- edits and rejected operations -------------------- *)
\* the stored conversation when its first user message was sent with an
\* attached file
StoredConversationWithFile ==
  [StoredConversation EXCEPT !.messages[2].fileParts = <<"photo.png">>]
\* a stored conversation of two completed turns that has no greeting
StoredLegacyConversation ==
  [id |-> ChatId(-4), title |-> <<"hi">>,
   messages |-> << Message(UserMsgId(-3), USER, -3, <<"hi">>, << >>, FALSE, NoError),
                   Message(AiMsgId(-3), AI, -2, <<"s1f1">>, << >>, FALSE, NoError),
                   Message(UserMsgId(-1), USER, -1, <<"more">>, << >>, FALSE, NoError),
                   Message(AiMsgId(-1), AI, 0, <<"s2f1">>, << >>, FALSE, NoError) >>,
   createdAt |-> -4, lastUpdatedAt |-> 0]
StoredEditInputs ==
  { [histories |-> <<StoredConversationWithFile,
                    NewHistoryItem(-6, <<GreetingMessage(-6)>>)>>,
     activeId |-> ChatId(-4)],
    [histories |-> <<StoredLegacyConversation>>, activeId |-> ChatId(-4)] }
InitEdit == InitWith(StoredEditInputs, BOOLEAN)

\* what the input box can hold when an edit is saved with no text
BlankEditTexts == { << >>, <<" ">> }

\* faulty variant: the rejected edit leaves edit mode
handleSaveEditBlankLeavingEdit(text) ==
  /\ initialDataLoaded
  /\ ~isSendingMessage
  /\ editingMessageId # NoId
  /\ Trim(text) = << >>
  /\ editingMessageId' = NoId
  /\ opTrail' = "emptyEdit:error"
  /\ UNCHANGED geminiService
  /\ gens' = ClearStops(gens)
  /\ UNCHANGED <<now, aiInstance, initialDataLoaded, storedHistories, storedActiveId,
                 chatHistories, activeChatIdState, currentMessages, isSendingMessage,
                 chatSession, generatingTitleForChatId, abortRef,
                 signalAborted, created, ctxs, workers>>
\* handleSendMessage, edit branch with a blank input: setError("Cannot save
\* an empty message. ...") and return.  (ChatInput.handleSubmitOrStop makes
\* the same test first and returns without calling the handler.)  The test
\* does not look at the attachments of the message.
handleSaveEditBlank(text) ==
  /\ initialDataLoaded
  /\ ~isSendingMessage
  /\ editingMessageId # NoId
  /\ Trim(text) = << >>
  /\ opTrail' = "emptyEdit:error"
  /\ UNCHANGED geminiService
  /\ gens' = ClearStops(gens)
  /\ UNCHANGED <<now, aiInstance, initialDataLoaded, storedHistories, storedActiveId,
                 chatHistories, activeChatIdState, currentMessages, isSendingMessage,
                 chatSession, editingMessageId, generatingTitleForChatId, abortRef,
                 signalAborted, created, ctxs, workers>>

\* a session id the list does not hold (a session deleted since the
\* caller got hold of the id)
StaleSessionIds == { ChatId(-9) }

\* handleSelectChat(chatIdToSelect) when chatHistories.find returns
\* undefined: nothing with an AI client, the error banner without one
handleSelectChatMissing(chatIdToSelect) ==
  /\ initialDataLoaded
  /\ FindIndex(chatHistories, chatIdToSelect) = 0
  /\ opTrail' = IF aiInstance THEN "selectMissing" ELSE "selectMissing:error"
  /\ UNCHANGED geminiService
  /\ gens' = ClearStops(gens)
  /\ UNCHANGED <<now, aiInstance, initialDataLoaded, storedHistories, storedActiveId,
                 chatHistories, activeChatIdState, currentMessages, isSendingMessage,
                 chatSession, editingMessageId, generatingTitleForChatId, abortRef,
                 signalAborted, created, ctxs, workers>>

\* the handlers that work on the stored sessions together with the
\* rejected operations
NextEdit ==
  \/ \E t \in NextInstants \cup {now} : LoadData(t)
  \/ \E id \in SessionIds : handleSelectChat(id)
  \/ \E id \in StaleSessionIds : handleSelectChatMissing(id)
  \/ handleStopGeneration
  \/ \E id \in MessageIds : handleStartEdit(id)
  \/ handleCancelEdit
  \/ \E text \in SubmitTexts, files \in SubmitFiles, t \in NextInstants :
       handleSendMessage(text, files, t)
  \/ \E text \in EditTexts, t \in NextInstants : handleSaveEdit(text, t)
  \/ \E text \in BlankEditTexts : handleSaveEditBlank(text)
  \/ \E g \in DOMAIN gens : StreamChunk(g)
  \/ \E g \in DOMAIN gens, t \in NextInstants : StreamChunkAborted(g, t)
  \/ \E g \in DOMAIN gens, t \in NextInstants : StreamEnd(g, t)
  \/ \E g \in DOMAIN gens, t \in NextInstants, msg \in TransportErrors : StreamFail(g, t, msg)

SpecEdit == InitEdit /\ [][NextEdit]_vars

TypeOK ==
  /\ now \in 0..MaxClock
  /\ initialDataLoaded \in BOOLEAN
  /\ abortRef \in 0..MaxGens
  /\ signalAborted \in BOOLEAN
  /\ created \in 0..MaxSessions
  /\ chatSession \in {0} \cup CtxSlots
  /\ Len(gens) <= MaxGens
  /\ Len(workers) <= MaxWorkers
  /\ geminiService.chatsCreated \in 0..MaxChats

(* ------------------------------ properties ----------------------------- *)
OpenContexts == {k \in CtxSlots : ctxs[k].open}
Done(g) == gens[g].pc = "done"
SessionMessages(histories, chatId) ==
  IF FindIndex(histories, chatId) = 0 THEN << >>
  ELSE histories[FindIndex(histories, chatId)].messages
IdsOf(messages) == [i \in DOMAIN messages |-> messages[i].id]

\* the status a finalized message shows through its error field
StatusOf(err) ==
  IF err = NoError THEN "COMPLETE"
  ELSE IF err = <<StoppedByUser>> THEN "CANCELLED"
  ELSE "ERRORED"

\* C1: every remote conversation context is opened with a seed history that
\* is absent/empty or starts with a USER turn and has no two adjacent turns
\* of the same role; a converted history that breaks this is replaced by no
\* seed history.
SeedOk(h) ==
  \/ h = << >>
  \/ /\ h[1].role = "user"
     /\ \A i \in 1..(Len(h) - 1) : h[i].role # h[i + 1].role
SeedHistoryValidOrAbsent ==
  \A k \in OpenContexts :
    /\ SeedOk(ctxs[k].seed)
    /\ IF SeedOk(ctxs[k].raw) THEN ctxs[k].seed = ctxs[k].raw ELSE ctxs[k].seed = << >>
\* an edit-regeneration context whose converted history was not valid and
\* was opened without a seed
SeedReplacedForRegeneration ==
  \E g \in InFlight(gens) :
    /\ gens[g].kind = "regen"
    /\ ctxs[gens[g].ctx].raw # << >>
    /\ ~SeedOk(ctxs[gens[g].ctx].raw)
    /\ ctxs[gens[g].ctx].seed = << >>

\* C2: the whole role sequence a context is given (seed, then every user
\* turn sent through it and every completed reply) alternates USER, MODEL,
\* USER, MODEL starting with USER.
ContextRolesAlternate ==
  \A k \in OpenContexts :
    \A i \in DOMAIN ctxs[k].log :
      ctxs[k].log[i] = IF i % 2 = 1 THEN "user" ELSE "model"

\* C3: each session has at most one generation in flight.
OneGenerationPerSession ==
  \A g1, g2 \in InFlight(gens) : gens[g1].chatId = gens[g2].chatId => g1 = g2

\* C4: a message finalized as cancelled holds exactly the fragments applied
\* so far followed by the stop marker.
CancelledTextKeepsFragmentsAndMarker ==
  \A g \in DOMAIN gens :
    Done(g) /\ StatusOf(gens[g].finalError) = "CANCELLED"
      => gens[g].finalText = gens[g].frags \o <<StopMarker>>

\* C5: a generation that was in flight for the active session when the
\* stop button was pressed, and whose stream then delivers a fragment or
\* ends, is finalized as CANCELLED and never as COMPLETE.
CancelReachesGeneration ==
  \A g \in DOMAIN gens :
    Done(g) /\ gens[g].stopRequested => StatusOf(gens[g].finalError) # "COMPLETE"

EditTruncatesTail ==
  \A g \in DOMAIN gens :
    gens[g].kind = "regen" =>
      /\ gens[g].pc = "stream" /\ FindIndex(chatHistories, gens[g].chatId) # 0
           => Len(SessionMessages(chatHistories, gens[g].chatId)) = gens[g].idxR
      /\ Done(g) /\ gens[g].lenFinal # 0 => gens[g].lenFinal = gens[g].idxR

\* C8: for an edit of the last USER message of a session (its reply R being
\* the last message), every step of the regeneration - the accepted edit,
\* each fragment, the finalization as complete, cancelled or errored -
\* leaves the session's messages the same in number, ids and order, with
\* R's id at R's index; the accepted edit leaves R empty and loading.
RegenerationAdvances(g) ==
  /\ gens'[g].kind = "regen"
  /\ gens'[g].idxR = gens'[g].lenBefore
  /\ \/ g \notin DOMAIN gens
     \/ gens[g].n # gens'[g].n
     \/ gens[g].pc # gens'[g].pc
RegenerationKeepsMessages ==
  \A g \in DOMAIN gens' :
    RegenerationAdvances(g) =>
      LET before == SessionMessages(chatHistories, gens'[g].chatId)
          after == SessionMessages(chatHistories', gens'[g].chatId)
          r == gens'[g].idxR
      IN /\ IdsOf(currentMessages') = IdsOf(currentMessages)
         /\ FindIndex(chatHistories', gens'[g].chatId) # 0 =>
              /\ IdsOf(after) = IdsOf(before)
              /\ after[r].id = gens'[g].aiMessageId
              /\ after[r].sender = AI
              /\ g \notin DOMAIN gens =>
                   /\ Len(after) = gens'[g].lenBefore
                   /\ after[r].textPart = NoText
                   /\ after[r].isLoading
              /\ gens'[g].pc = "done" => ~after[r].isLoading
OneFreshActiveSession ==
  /\ Len(chatHistories) = 1
  /\ storedHistories = chatHistories
  /\ Len(chatHistories[1].messages) = 1
  /\ chatHistories[1].messages[1].id = GreetingId(chatHistories[1].createdAt)
  /\ activeChatIdState = chatHistories[1].id
  /\ storedActiveId = chatHistories[1].id
  /\ currentMessages = chatHistories[1].messages

TitleCompletionAfterDelete ==
  \A w \in DOMAIN workers :
    /\ workers[w].pc = "await"
    /\ workers'[w].pc = "done"
    /\ FindIndex(chatHistories, workers[w].chatId) = 0
    => /\ chatHistories' = chatHistories
       /\ storedHistories' = storedHistories
       /\ FindIndex(chatHistories', workers[w].chatId) = 0
       /\ FindIndex(storedHistories', workers[w].chatId) = 0
DeletedSessionTitleWriteIsNoOp == [][TitleCompletionAfterDelete]_vars
\* a worker came back with a usable title after its session had been
\* deleted, and the session is in neither list
TitleReturnAfterDelete ==
  \E w \in DOMAIN workers :
    /\ workers[w].pc = "done"
    /\ workers[w].suitable
    /\ workers[w].titleBefore = << >>
    /\ ~workers[w].wrote
    /\ FindIndex(chatHistories, workers[w].chatId) = 0
    /\ FindIndex(storedHistories, workers[w].chatId) = 0

\* C12: in a session as handleNewChat creates it (placeholder title), the
\* first submit that ends in a complete, non-empty model answer launches the
\* title worker for that session.
FreshSessionFirstAnswerLaunchesWorker ==
  \A g \in DOMAIN gens :
    /\ Done(g)
    /\ gens[g].fresh
    /\ StatusOf(gens[g].finalError) = "COMPLETE"
    /\ gens[g].finalText # NoText
    => \E w \in DOMAIN workers : workers[w].chatId = gens[g].chatId

\* C13: when the remote call or the stream of a submitted message fails,
\* the session - in memory and in the durable save - still holds the user's
\* message with the text and attachments it was submitted with, directly
\* followed by the ERRORED model message, which is the only ERRORED message
\* after it.
FailedAfter(messages, i) ==
  {k \in DOMAIN messages : k > i /\ StatusOf(messages[k].error) = "ERRORED"}
UserMessageKeptIn(histories, g) ==
  LET messages == SessionMessages(histories, gens'[g].chatId)
      i == FindIndex(messages, gens'[g].userMessage.id)
  IN /\ i # 0
     /\ messages[i] = gens'[g].userMessage
     /\ Len(messages) > i
     /\ messages[i + 1].id = gens'[g].aiMessageId
     /\ messages[i + 1].sender = AI
     /\ FailedAfter(messages, i) = {i + 1}
FailureKeepsUserMessage ==
  \A g \in DOMAIN gens :
    /\ gens[g].kind = "new"
    /\ gens[g].pc = "stream"
    /\ gens'[g].pc = "done"
    /\ gens'[g].cause = "throw"
    /\ FindIndex(chatHistories', gens[g].chatId) # 0
    => /\ UserMessageKeptIn(chatHistories', g)
       /\ UserMessageKeptIn(storedHistories', g)
FailedSendKeepsUserMessage == [][FailureKeepsUserMessage]_vars

\* C14: the step that ends a generation (new message or regeneration) in a
\* transport error leaves its model message ERRORED with a non-empty error
\* detail, isSendingMessage false and no abort controller; if the user is
\* still in that session and not editing, the guards of a submit all hold,
\* so the next submit starts a new generation.
SubmitAcceptedNext ==
  /\ ~isSendingMessage'
  /\ aiInstance'
  /\ activeChatIdState' # NoId
  /\ chatSession' # 0 \/ FindIndex(chatHistories', activeChatIdState') # 0
TransportErrorStep ==
  \A g \in DOMAIN gens :
    /\ gens[g].pc = "stream"
    /\ gens'[g].pc = "done"
    /\ gens'[g].cause = "throw"
    => /\ StatusOf(gens'[g].finalError) = "ERRORED"
       /\ Len(gens'[g].finalError) = 2
       /\ gens'[g].finalError[2] # ""
       /\ FindIndex(chatHistories', gens[g].chatId) # 0 =>
            LET messages == SessionMessages(chatHistories', gens[g].chatId)
                i == FindIndex(messages, gens[g].aiMessageId)
            IN /\ i # 0
               /\ messages[i].error = gens'[g].finalError
               /\ ~messages[i].isLoading
       /\ ~isSendingMessage'
       /\ abortRef' = 0
       /\ activeChatIdState' = gens[g].chatId /\ editingMessageId' = NoId
            => SubmitAcceptedNext
SessionUsableAfterTransportError == [][TransportErrorStep]_vars
\* a generation ended in a transport error and the next submit in the same
\* session was accepted: its user message follows the ERRORED message
SubmitAfterTransportError ==
  \E g1, g2 \in DOMAIN gens :
    /\ gens[g1].cause = "throw"
    /\ gens[g2].kind = "new"
    /\ gens[g2].chatId = gens[g1].chatId
    /\ LET messages == SessionMessages(chatHistories, gens[g1].chatId)
           i == FindIndex(messages, gens[g1].aiMessageId)
       IN /\ i # 0
          /\ Len(messages) > i
          /\ StatusOf(messages[i].error) = "ERRORED"
          /\ messages[i + 1] = gens[g2].userMessage

\* C15: every step that ends a generation - complete, cancelled or errored,
\* for a new message or for an edit-regeneration - saves the session list
\* it has just committed, and when the generation's session is still in
\* the list the saved session holds the finalized message.
HoldsFinalMessage(histories, g) ==
  \E k \in DOMAIN SessionMessages(histories, gens'[g].chatId) :
    LET m == SessionMessages(histories, gens'[g].chatId)[k]
    IN /\ m.id = gens'[g].aiMessageId
       /\ m.sender = AI
       /\ m.textPart = gens'[g].finalText
       /\ m.error = gens'[g].finalError
       /\ ~m.isLoading
TerminationSaves ==
  \A g \in DOMAIN gens :
    gens[g].pc = "stream" /\ gens'[g].pc = "done"
    => /\ storedHistories' = chatHistories'
       /\ gens'[g].outcome \in {"complete", "cancelled", "errored"}
       /\ FindIndex(chatHistories', gens[g].chatId) # 0
            => HoldsFinalMessage(storedHistories', g)
EveryTerminationSaves == [][TerminationSaves]_vars
\* an edit-regeneration ended in an error and the durable store holds its
\* ERRORED message
SavedErroredRegeneration ==
  \E g \in DOMAIN gens :
    /\ gens[g].kind = "regen"
    /\ Done(g)
    /\ gens[g].outcome = "errored"
    /\ \E k \in DOMAIN SessionMessages(storedHistories, gens[g].chatId) :
         LET m == SessionMessages(storedHistories, gens[g].chatId)[k]
         IN m.id = gens[g].aiMessageId /\ m.error = gens[g].finalError
                                       /\ m.textPart = gens[g].finalText

\* C16: in every reachable state the in-memory session list is ordered by
\* lastUpdatedAt, newest first.
SessionListSorted ==
  \A i \in 1..(Len(chatHistories) - 1) :
    chatHistories[i].lastUpdatedAt >= chatHistories[i + 1].lastUpdatedAt

\* C17: in every reachable state no two messages of one session share an
\* id, in the session list and in the displayed messages, also when the
\* wall clock does not advance between two allocations.
NoRepeatedId(messages) ==
  \A i, j \in DOMAIN messages : messages[i].id = messages[j].id => i = j
MessageIdsUnique ==
  /\ \A i \in DOMAIN chatHistories : NoRepeatedId(chatHistories[i].messages)
  /\ NoRepeatedId(currentMessages)

\* C18: while a generation is in flight in one session, a submit in another
\* session the user has switched to is accepted; and every step of a
\* generation (a fragment, its finalization) leaves the messages of every
\* other session, and the displayed messages when another session is
\* active, as they were.
OtherSessionAcceptsSubmit ==
  /\ InFlight(gens') # {}
  /\ \A g \in InFlight(gens') : gens'[g].chatId # activeChatIdState'
  /\ FindIndex(chatHistories', activeChatIdState') # 0
  /\ editingMessageId' = NoId
  => SubmitAcceptedNext
WritesOwnSessionOnly ==
  \A g \in DOMAIN gens :
    /\ gens[g].pc = "stream"
    /\ gens'[g].n # gens[g].n \/ gens'[g].pc = "done"
    => /\ \A i \in DOMAIN chatHistories :
            chatHistories[i].id # gens[g].chatId =>
              SessionMessages(chatHistories', chatHistories[i].id) = chatHistories[i].messages
       /\ activeChatIdState # gens[g].chatId => currentMessages' = currentMessages
GenerationsAcrossSessions == [][OtherSessionAcceptsSubmit /\ WritesOwnSessionOnly]_vars
\* a submit was accepted in the second session while the first one was
\* generating, and both generations have been finalized as complete, each
\* reply in its own session
BothSessionsFinalized ==
  \E g1, g2 \in DOMAIN gens :
    /\ gens[g1].chatId # gens[g2].chatId
    /\ Done(g1) /\ Done(g2)
    /\ gens[g1].outcome = "complete" /\ gens[g2].outcome = "complete"
    /\ LET a == SessionMessages(chatHistories, gens[g1].chatId)
           b == SessionMessages(chatHistories, gens[g2].chatId)
       IN /\ FindIndex(a, gens[g1].aiMessageId) # 0
          /\ FindIndex(b, gens[g2].aiMessageId) # 0
          /\ FindIndex(a, gens[g2].aiMessageId) = 0
          /\ FindIndex(b, gens[g1].aiMessageId) = 0
          /\ a[FindIndex(a, gens[g1].aiMessageId)].timestamp > gens[g2].userMessage.timestamp
          /\ gens[g2].userMessage.timestamp > gens[g1].userMessage.timestamp

HandleLivesWithItsGeneration ==
  /\ \A g \in InFlight(gens) : abortRef = g
  /\ abortRef # 0 => abortRef \in InFlight(gens)

\* C21: every step that changes the in-memory session list (a user message
\* appended, a reply finalized, an edit, a delete, a session created - also
\* at start-up - or a title written) saves the list as it stands after the
\* step.
ChangeIsSaved == chatHistories' # chatHistories => storedHistories' = chatHistories'
EveryChangeSaved == [][ChangeIsSaved]_vars

\* C22: the step that accepts a submit leaves the user's message (no error,
\* not loading) followed by the loading placeholder of the reply at the end
\* of the displayed messages and at the end of the session's messages in
\* the session list.
EndsWithTurn(messages, g) ==
  /\ Len(messages) >= 2
  /\ messages[Len(messages) - 1] = gens'[g].userMessage
  /\ messages[Len(messages)].id = gens'[g].aiMessageId
  /\ messages[Len(messages)].sender = AI
  /\ messages[Len(messages)].isLoading
SubmitAppendsTurn ==
  \A g \in DOMAIN gens' :
    g \notin DOMAIN gens /\ gens'[g].kind = "new"
    => /\ gens'[g].userMessage.error = NoError
       /\ ~gens'[g].userMessage.isLoading
       /\ EndsWithTurn(currentMessages', g)
       /\ EndsWithTurn(SessionMessages(chatHistories', gens'[g].chatId), g)
SubmitShowsPendingReply == [][SubmitAppendsTurn]_vars

\* C23: when a fragment of a stream is received, the stream's fragments are
\* its own, in receipt order; the stream's in-flight message, where it is
\* displayed, carries exactly their concatenation; and the in-flight message
\* of no other stream is touched.
FragmentReceived(g) == g \in DOMAIN gens' /\ gens'[g].n = gens[g].n + 1
TextFollowsFragments ==
  \A g \in DOMAIN gens :
    FragmentReceived(g)
    => /\ gens'[g].frags = [k \in 1..gens'[g].n |-> Frag(g, k)]
       /\ \A i \in DOMAIN currentMessages' :
            currentMessages'[i].id = gens[g].aiMessageId
            => currentMessages'[i].textPart = gens'[g].frags
       /\ \A g2 \in InFlight(gens) \ {g} :
            \A i \in DOMAIN currentMessages :
              currentMessages[i].id = gens[g2].aiMessageId
              => currentMessages'[i] = currentMessages[i]
TextIsFragmentsInOrder == [][TextFollowsFragments]_vars

\* C24: a step that rejects an empty edit leaves the session list (the
\* messages of every session, lastUpdatedAt, the order), the durable store,
\* the displayed messages and the edit target as they were, and makes no
\* remote call: no generation and no conversation context is created or
\* advanced.
EmptyEditRejected == opTrail # "emptyEdit:error" /\ opTrail' = "emptyEdit:error"
RejectionChangesNothing ==
  EmptyEditRejected
  => /\ chatHistories' = chatHistories
     /\ storedHistories' = storedHistories
     /\ currentMessages' = currentMessages
     /\ editingMessageId' = editingMessageId
     /\ editingMessageId # NoId
     /\ ctxs' = ctxs
     /\ <<isSendingMessage', abortRef', chatSession'>> =
          <<isSendingMessage, abortRef, chatSession>>
     /\ DOMAIN gens' = DOMAIN gens
     /\ \A g \in DOMAIN gens : <<gens'[g].pc, gens'[g].n>> = <<gens[g].pc, gens[g].n>>
EmptyEditChangesNothing == [][RejectionChangesNothing]_vars
\* an empty edit of a message of the active session has just been rejected
EmptyEditWasRejected ==
  /\ opTrail = "emptyEdit:error"
  /\ \E i \in DOMAIN currentMessages :
       /\ currentMessages[i].id = editingMessageId
       /\ currentMessages[i].textPart # << >>
  /\ storedHistories = chatHistories

\* C25: an edit is rejected as empty only when the message under edit has
\* no attachments (an empty text on a message with attachments is accepted).
EmptyEditRejectedOnlyWithoutFiles ==
  opTrail = "emptyEdit:error"
  => \A i \in DOMAIN currentMessages :
       currentMessages[i].id = editingMessageId => currentMessages[i].fileParts = << >>

\* C26: the step that accepts an edit of message M of the active session
\* keeps M's id, sender and attachments, gives it the new text and the
\* present time, leaves every message before M as it was, in the session
\* list and in the displayed messages, and modifies no other session.
EditAccepted ==
  editingMessageId # NoId /\ editingMessageId' = NoId /\ now' # now
EditedInPlace(before, after) ==
  LET k == FindIndex(before, editingMessageId)
  IN /\ k # 0
     /\ Len(after) = Len(before)
     /\ after[k] = [before[k] EXCEPT !.textPart = after[k].textPart,
                                     !.timestamp = now']
     /\ after[k].textPart \in {Trim(text) : text \in EditTexts}
     /\ \A j \in 1..(k - 1) : after[j] = before[j]
EditChangesOnlyItsMessage ==
  EditAccepted
  => /\ EditedInPlace(SessionMessages(chatHistories, activeChatIdState),
                       SessionMessages(chatHistories', activeChatIdState))
     /\ FindIndex(currentMessages, editingMessageId) # 0
          => EditedInPlace(currentMessages, currentMessages')
     /\ \A i \in DOMAIN chatHistories :
          chatHistories[i].id # activeChatIdState
          => \E j \in DOMAIN chatHistories' : chatHistories'[j] = chatHistories[i]
     /\ Len(chatHistories') = Len(chatHistories)
EditTouchesOnlyEditedMessage == [][EditChangesOnlyItsMessage]_vars
\* the message with the attachment has been edited, next to another session
EditedMessageKeepsFile ==
  /\ Len(chatHistories) = 2
  /\ \E m \in {SessionMessages(chatHistories, activeChatIdState)[k] :
                  k \in DOMAIN SessionMessages(chatHistories, activeChatIdState)} :
       /\ m.sender = USER
       /\ m.textPart = <<"hola">>
       /\ m.fileParts = <<"photo.png">>
       /\ m.timestamp = now

\* C27: the step that accepts an edit with regeneration opens the context of
\* the regeneration from the messages strictly before the edited message as
\* the session held them before the step: the converted history is the
\* conversion of exactly those messages and the seed is that history or
\* nothing, so neither the edited message (old or new text), nor the reply
\* being regenerated, nor a later message is in it.
RegenerationStarted(g) ==
  g \notin DOMAIN gens /\ g \in DOMAIN gens' /\ gens'[g].kind = "regen"
MessagesBeforeEdited ==
  SubSeq(SessionMessages(chatHistories, activeChatIdState), 1,
         FindIndex(SessionMessages(chatHistories, activeChatIdState), editingMessageId) - 1)
SeededFromEarlierMessages ==
  \A g \in DOMAIN gens' :
    RegenerationStarted(g)
    => /\ ctxs'[gens'[g].ctx].open
       /\ ctxs'[gens'[g].ctx].raw = convertToGeminiHistory(MessagesBeforeEdited)
       /\ ctxs'[gens'[g].ctx].seed \in {convertToGeminiHistory(MessagesBeforeEdited), << >>}
       /\ Len(ctxs'[gens'[g].ctx].seed) < gens'[g].idxR - 1
RegenerationSeedIsPrefix == [][SeededFromEarlierMessages]_vars
\* a regeneration of the second turn streams over a context seeded with
\* the first turn
RegenerationSeededWithFirstTurn ==
  \E g \in InFlight(gens) :
    /\ gens[g].kind = "regen"
    /\ RolesOf(ctxs[gens[g].ctx].seed) = <<"user", "model">>
    /\ gens[g].userMessage.textPart = <<"hola">>

\* C28: the step that accepts an edit of a USER message that no MODEL message
\* follows updates the message in place and saves the list, adds no message,
\* starts no generation, creates no abort controller and leaves
\* isSendingMessage false.
NoReplyFollowsEdited ==
  LET messages == SessionMessages(chatHistories, activeChatIdState)
      k == FindIndex(messages, editingMessageId)
  IN /\ k # 0
     /\ messages[k].sender = USER
     /\ k = Len(messages) \/ messages[k + 1].sender # AI
PlainEditOnly ==
  EditAccepted /\ NoReplyFollowsEdited
  => /\ EditedInPlace(SessionMessages(chatHistories, activeChatIdState),
                       SessionMessages(chatHistories', activeChatIdState))
     /\ storedHistories' = chatHistories'
     /\ DOMAIN gens' = DOMAIN gens
     /\ \A g \in DOMAIN gens : <<gens'[g].pc, gens'[g].n>> = <<gens[g].pc, gens[g].n>>
     /\ abortRef' = abortRef
     /\ ~isSendingMessage'
     /\ \A k \in CtxSlots : ctxs'[k].open => ctxs'[k].log \in {<< >>} \cup {ctxs[j].log : j \in CtxSlots}
UnansweredEditIsPlainUpdate == [][PlainEditOnly]_vars
\* the unanswered last message of the active session has just been edited
\* and saved
UnansweredMessageEdited ==
  LET messages == SessionMessages(chatHistories, activeChatIdState)
  IN /\ messages # << >>
     /\ messages[Len(messages)].sender = USER
     /\ messages[Len(messages)].textPart = <<"hola">>
     /\ messages[Len(messages)].timestamp = now
     /\ storedHistories = chatHistories
     /\ ~isSendingMessage
     /\ aiInstance

\* C29: a step that changes the messages of a session (append, replace,
\* finalize) sets the session's lastUpdatedAt to the time of the step; no
\* step lowers a session's lastUpdatedAt; a step that changes only the title
\* of a session leaves its lastUpdatedAt as it was.
SessionTimeFollowsMessages(before, after) ==
  /\ after.messages # before.messages => after.lastUpdatedAt = now'
  /\ after.lastUpdatedAt >= before.lastUpdatedAt
  /\ after.messages = before.messages /\ after.title # before.title
       => after.lastUpdatedAt = before.lastUpdatedAt
LastUpdatedFollowsMessages ==
  \A i \in DOMAIN chatHistories, j \in DOMAIN chatHistories' :
    chatHistories'[j].id = chatHistories[i].id
    => SessionTimeFollowsMessages(chatHistories[i], chatHistories'[j])
LastUpdatedAtTracksMessages == [][LastUpdatedFollowsMessages]_vars
\* the title worker has written a title after a later instant was read: the
\* session still carries the time of its last message change
TitleWrittenKeepsTime ==
  \E w \in DOMAIN workers :
    /\ workers[w].wrote
    /\ FindIndex(chatHistories, workers[w].chatId) # 0
    /\ LET h == chatHistories[FindIndex(chatHistories, workers[w].chatId)]
       IN /\ h.title = workers[w].titleAfter
          /\ h.messages # << >>
          /\ h.lastUpdatedAt = h.messages[Len(h.messages)].timestamp
          /\ h.lastUpdatedAt < now

\* C30: the step that handles the selection of a session id the list does
\* not hold leaves the active session, the displayed messages, the session
\* list and every generation as they were, and puts up the error banner.
MissingSessionSelected ==
  opTrail' # opTrail /\ opTrail' \in {"selectMissing", "selectMissing:error"}
MissingSelectionFails ==
  MissingSessionSelected
  => /\ activeChatIdState' = activeChatIdState
     /\ currentMessages' = currentMessages
     /\ chatHistories' = chatHistories
     /\ DOMAIN gens' = DOMAIN gens
     /\ \A g \in DOMAIN gens : <<gens'[g].pc, gens'[g].n>> = <<gens[g].pc, gens[g].n>>
     /\ opTrail' = "selectMissing:error"
SelectMissingSurfacesFailure == [][MissingSelectionFails]_vars

\* C31: when the stored session data is malformed (a text that cannot be
\* parsed, or an item lacking a required field), start-up ends with the
\* state of an empty store: one fresh active session with a conversation
\* context when the AI client is available, otherwise no session and no
\* active session.
RequiredFields == {"id", "title", "messages", "createdAt", "lastUpdatedAt"}
Malformed(serializedHistories) ==
  \E i \in DOMAIN serializedHistories :
    ~(RequiredFields \subseteq DOMAIN serializedHistories[i])
StartUpDone == ~initialDataLoaded /\ initialDataLoaded'
StartsFresh ==
  IF aiInstance
  THEN /\ Len(chatHistories') = 1
       /\ IsFreshSession(chatHistories'[1])
       /\ activeChatIdState' = chatHistories'[1].id
       /\ currentMessages' = chatHistories'[1].messages
       /\ chatSession' # 0
       /\ ~isSendingMessage'
  ELSE /\ chatHistories' = << >>
       /\ activeChatIdState' = NoId
       /\ currentMessages' = << >>
MalformedStoreStartsFresh ==
  [][StartUpDone /\ Malformed(storedHistories) => StartsFresh]_vars

\* C32: the step that ends a title worker (the remote call returned or
\* failed) clears the title marker; it changes the session list or the
\* durable store only by writing a title that is non-empty, trimmed and
\* shorter than TitleCeiling; when the candidate is not such a title or the
\* call failed, the session list and the durable store stay as they were.
TitleWorkerEnds(w) == workers[w].pc = "await" /\ workers'[w].pc = "done"
TitleWriteIsSuitable(w) ==
  LET title == SessionTitle(chatHistories', workers[w].chatId)
  IN /\ generatingTitleForChatId' = NoId
     /\ chatHistories' # chatHistories \/ storedHistories' # storedHistories
          => /\ title # << >>
             /\ Trim(title) = title
             /\ StrLen(title) < TitleCeiling
             /\ workers'[w].wrote
     /\ ~workers'[w].suitable
          => chatHistories' = chatHistories /\ storedHistories' = storedHistories
OnlySuitableTitleWritten ==
  [][\A w \in DOMAIN workers : TitleWorkerEnds(w) => TitleWriteIsSuitable(w)]_vars
\* a worker ended without a usable title and its session keeps the title
\* it had at launch, with the marker cleared
UnsuitableTitleDropped ==
  \E w \in DOMAIN workers :
    /\ workers[w].pc = "done"
    /\ ~workers[w].suitable
    /\ ~workers[w].wrote
    /\ FindIndex(chatHistories, workers[w].chatId) # 0
    /\ SessionTitle(chatHistories, workers[w].chatId) = workers[w].titleAtLaunch
    /\ SessionTitle(storedHistories, workers[w].chatId) = workers[w].titleAtLaunch
    /\ generatingTitleForChatId = NoId

\* C33: in every state after start-up the active session id is none or the
\* id of a session of the in-memory session list.
ActiveSessionIsListed ==
  initialDataLoaded
  => activeChatIdState = NoId \/ FindIndex(chatHistories, activeChatIdState) # 0

\* C34: in every state after start-up in which no generation is in flight
\* and a session is active, the displayed messages are the messages the
\* session list holds for the active session.
DisplayMatchesStoreWhenIdle ==
  initialDataLoaded /\ InFlight(gens) = {} /\ activeChatIdState # NoId
  => currentMessages = SessionMessages(chatHistories, activeChatIdState)

\* C35: isSendingMessage is true in every state in which a generation is in
\* flight for the active session, and false in every state in which no
\* generation is in flight.
ActiveGenerations == {g \in InFlight(gens) : gens[g].chatId = activeChatIdState}
SendingWhileActiveGeneration == ActiveGenerations # {} => isSendingMessage
IdleWhenNothingInFlight == InFlight(gens) = {} => ~isSendingMessage
SendingTracksGeneration == SendingWhileActiveGeneration /\ IdleWhenNothingInFlight

\* C36: a stop request reaches only generations of the session it was
\* issued in: a step in which a generation breaks off on the abort signal,
\* or is finalized as stopped by the user, is a step of a generation of the
\* active session (the session the stop button belongs to).
StoppedByRequest(g) ==
  /\ gens[g].pc = "stream"
  /\ gens'[g].pc = "done"
  /\ gens'[g].cause = "break" \/ gens'[g].outcome = "cancelled"
StopStaysInItsSession ==
  [][\A g \in DOMAIN gens : StoppedByRequest(g) => gens[g].chatId = activeChatIdState]_vars

\* C37: a step that ends a generation whose session is no longer in the
\* session list leaves that session out of the list and out of the durable
\* store, and changes no message of any session of the list.
EndsAfterDelete(g) ==
  /\ gens[g].pc = "stream"
  /\ gens'[g].pc = "done"
  /\ FindIndex(chatHistories, gens[g].chatId) = 0
LateEndLeavesSessionsAlone(g) ==
  /\ FindIndex(chatHistories', gens[g].chatId) = 0
  /\ FindIndex(storedHistories', gens[g].chatId) = 0
  /\ Len(chatHistories') = Len(chatHistories)
  /\ \A i \in DOMAIN chatHistories :
       SessionMessages(chatHistories', chatHistories[i].id) = chatHistories[i].messages
  /\ \A i \in DOMAIN storedHistories' :
       storedHistories'[i].messages =
         SessionMessages(chatHistories, storedHistories'[i].id)
DeletedSessionStaysDeleted ==
  [][\A g \in DOMAIN gens : EndsAfterDelete(g) => LateEndLeavesSessionsAlone(g)]_vars
\* a generation has ended after its session was deleted, while another
\* session with messages exists
GenerationEndedAfterDelete ==
  \E g \in DOMAIN gens :
    /\ Done(g)
    /\ gens[g].lenFinal = 0
    /\ FindIndex(chatHistories, gens[g].chatId) = 0
    /\ FindIndex(storedHistories, gens[g].chatId) = 0
    /\ chatHistories # << >>
    /\ storedHistories = chatHistories

\* C38: the step that finishes an edit of the active session - the plain
\* update, or the end of the regeneration by completion, stop or failure -
\* leaves chatSession a newly opened context built from the messages the
\* session holds after the step, with nothing sent through it yet, so that
\* it holds neither the pre-edit text nor the superseded reply.
RebuiltFromCurrentMessages ==
  LET messages == SessionMessages(chatHistories', activeChatIdState)
  IN /\ chatSession' # 0
     /\ ctxs'[chatSession'] = NewContext(messages)
RegenerationFinished(g) ==
  /\ gens[g].kind = "regen"
  /\ gens[g].pc = "stream"
  /\ gens'[g].pc = "done"
  /\ gens[g].chatId = activeChatIdState
  /\ FindIndex(chatHistories, activeChatIdState) # 0
PlainEditFinished ==
  EditAccepted /\ aiInstance /\ DOMAIN gens' = DOMAIN gens
EditRebuildsContext ==
  /\ PlainEditFinished => RebuiltFromCurrentMessages
  /\ \A g \in DOMAIN gens : RegenerationFinished(g) => RebuiltFromCurrentMessages
ContextRebuiltAfterEdit == [][EditRebuildsContext]_vars

\* C39: the step that completes start-up makes active the loaded session
\* with the persisted last-active id if there is one, otherwise a loaded
\* session that no other loaded session was updated after, otherwise (nothing
\* loaded) a session created in that step when the client is available and
\* no session when it is not; and the list it leaves holds the loaded
\* sessions in descending order of lastUpdatedAt.
LoadedSessions == loadChatHistories(storedHistories)
LoadedIds == { LoadedSessions[i].id : i \in DOMAIN LoadedSessions }
SortedByLastUpdatedDesc(histories) ==
  \A i, j \in DOMAIN histories :
    i < j => histories[i].lastUpdatedAt >= histories[j].lastUpdatedAt
StartUpSelection ==
  /\ SortedByLastUpdatedDesc(chatHistories')
  /\ IF storedActiveId \in LoadedIds
     THEN activeChatIdState' = storedActiveId
     ELSE IF LoadedSessions # << >>
     THEN /\ activeChatIdState' \in LoadedIds
          /\ \A i \in DOMAIN LoadedSessions :
               chatHistories'[FindIndex(chatHistories', activeChatIdState')].lastUpdatedAt
                 >= LoadedSessions[i].lastUpdatedAt
     ELSE IF aiInstance
     THEN /\ activeChatIdState' = ChatId(now')
          /\ created' = created + 1
          /\ chatHistories' = <<NewHistoryItem(now', <<GreetingMessage(now')>>)>>
     ELSE /\ activeChatIdState' = NoId
          /\ chatHistories' = << >>
  /\ LoadedSessions # << >> =>
       /\ Len(chatHistories') = Len(LoadedSessions)
       /\ { chatHistories'[i] : i \in DOMAIN chatHistories' }
            = { LoadedSessions[i] : i \in DOMAIN LoadedSessions }
  /\ currentMessages' = SessionMessages(chatHistories', activeChatIdState')
StartUpSelectsActiveSession == [][StartUpDone => StartUpSelection]_vars
\* witnesses: start-up has selected the persisted older session of a store
\* kept oldest first, and the newer one when the persisted id was stale
PersistedOlderSessionActive ==
  /\ initialDataLoaded
  /\ storedHistories = StoredOldestFirst
  /\ gens = << >>
  /\ activeChatIdState = ChatId(-6)
  /\ chatHistories[1].id = ChatId(-4)

(* ----------------------------- GeminiService ---------------------------- *)
\* ChatMessage as the service reads it: a role and parts, a part being a
\* text, inline data, or something else
ServiceMessage(role, parts) == [role |-> role, parts |-> parts]
TextPart(text) == [text |-> text]
InlineDataPart == [inlineData |-> "image/png"]
UnknownPart == [fileUri |-> "x"]

\* the message lists of the calls: none, a first question, a list ending
\* with a reply, lists ending with a user message of an empty text or of an
\* unknown part, and a follow-up with an image
ServiceInputs ==
  { << >>,
    <<ServiceMessage("user", <<TextPart(<<"hi">>)>>)>>,
    <<ServiceMessage("user", <<TextPart(<<"hi">>)>>),
      ServiceMessage("model", <<TextPart(<<"yo">>)>>)>>,
    <<ServiceMessage("user", <<TextPart(<<"hi">>)>>),
      ServiceMessage("model", <<TextPart(<<"yo">>)>>),
      ServiceMessage("user", <<TextPart(<< >>)>>)>>,
    <<ServiceMessage("user", <<UnknownPart>>)>>,
    <<ServiceMessage("user", <<TextPart(<<"hi">>)>>),
      ServiceMessage("model", <<TextPart(<<"yo">>)>>),
      ServiceMessage("user", <<InlineDataPart>>)>> }

convertPart(p) ==
  IF "text" \in DOMAIN p THEN [text |-> p.text]
  ELSE IF "inlineData" \in DOMAIN p THEN [inlineData |-> p.inlineData]
  ELSE [text |-> <<"[Unsupported part]">>]
convertMessagesToGeminiHistory(messages) ==
  [i \in DOMAIN messages |->
     [role |-> messages[i].role,
      parts |-> [k \in DOMAIN messages[i].parts |-> convertPart(messages[i].parts[k])]]]

\* the parts generateChatResponseStream sends: texts and inline data, an
\* unknown part as an empty text, then without the empty texts
sendablePart(p) ==
  IF "text" \in DOMAIN p THEN [text |-> p.text]
  ELSE IF "inlineData" \in DOMAIN p THEN [inlineData |-> p.inlineData]
  ELSE [text |-> << >>]
hasContent(p) == IF "text" \in DOMAIN p THEN p.text # << >> ELSE TRUE
userMessagePartsOf(latestUserMessage) ==
  SelectSeq([k \in DOMAIN latestUserMessage.parts |->
               sendablePart(latestUserMessage.parts[k])], hasContent)

\* getOrCreateChat: the map after the call; the chat it returns is the
\* entry of sessionId in that map
getOrCreateChat(chatInstances, sessionId, history, serial) ==
  IF chatInstances[sessionId] # << >> THEN chatInstances
  ELSE [chatInstances EXCEPT
          ![sessionId] = <<[serial |-> serial, history |-> history, sent |-> 0]>>]

ServiceCall(op, sessionId, messages, outcome) ==
  [op |-> op, sessionId |-> sessionId, messages |-> messages, outcome |-> outcome]

\* generateChatResponseStream(sessionId, currentSessionMessages); delivered
\* tells whether chat.sendMessageStream resolved or rejected
generateChatResponseStream(sessionId, currentSessionMessages, delivered) ==
  LET n == Len(currentSessionMessages)
      historyForGemini ==
        convertMessagesToGeminiHistory(SubSeq(currentSessionMessages, 1, n - 1))
      withChat == getOrCreateChat(geminiService.chatInstances, sessionId,
                                  historyForGemini, geminiService.chatsCreated + 1)
      createdNow == IF withChat # geminiService.chatInstances THEN 1 ELSE 0
  IN /\ UNCHANGED appVars
     /\ IF n = 0 \/ currentSessionMessages[n].role # "user"
        THEN geminiService' =
               [geminiService EXCEPT
                  !.lastCall = ServiceCall("generate", sessionId,
                                           currentSessionMessages, "throw:lastNotUser")]
        ELSE /\ geminiService.chatsCreated + createdNow <= MaxChats
             /\ IF userMessagePartsOf(currentSessionMessages[n]) = << >>
                THEN geminiService' =
                       [chatInstances |-> withChat,
                        chatsCreated |-> geminiService.chatsCreated + createdNow,
                        lastCall |-> ServiceCall("generate", sessionId,
                                                 currentSessionMessages, "throw:noParts")]
                ELSE /\ withChat[sessionId][1].sent < MaxSent
                     /\ geminiService' =
                          [chatInstances |->
                             IF delivered
                             THEN [withChat EXCEPT ![sessionId][1].sent = @ + 1]
                             ELSE withChat,
                           chatsCreated |-> geminiService.chatsCreated + createdNow,
                           lastCall |-> ServiceCall("generate", sessionId,
                                          currentSessionMessages,
                                          IF delivered THEN "stream" ELSE "throw:send")]

deleteChatInstance(sessionId) ==
  /\ UNCHANGED appVars
  /\ geminiService' =
       [geminiService EXCEPT
          !.chatInstances[sessionId] = << >>,
          !.lastCall = ServiceCall("delete", sessionId, << >>, "")]

clearAllChatInstances ==
  /\ UNCHANGED appVars
  /\ geminiService' =
       [geminiService EXCEPT
          !.chatInstances = [sessionId \in ServiceSessionIds |-> << >>],
          !.lastCall = ServiceCall("clear", "", << >>, "")]

InitService == InitWith({[histories |-> << >>, activeId |-> NoId]}, {FALSE})
NextService ==
  \/ \E sessionId \in ServiceSessionIds, messages \in ServiceInputs, delivered \in BOOLEAN :
       generateChatResponseStream(sessionId, messages, delivered)
  \/ \E sessionId \in ServiceSessionIds : deleteChatInstance(sessionId)
  \/ clearAllChatInstances
SpecService == InitService /\ [][NextService]_vars

\* C40: the service holds at most one context per session id and a call of
\* generateChatResponseStream for an id that has one uses that context, its
\* history untouched by the messages passed; a context is built only by a
\* call for an id that has none (never used, or removed by
\* deleteChatInstance / clearAllChatInstances), from the messages before the
\* last one; and a call that throws on its own checks - last message not
\* from the user, no valid content parts - leaves chatInstances as it was.
GenerateCalled ==
  geminiService' # geminiService /\ geminiService'.lastCall.op = "generate"
CalledSession == geminiService'.lastCall.sessionId
CachedContextReused ==
  (GenerateCalled /\ geminiService.chatInstances[CalledSession] # << >>) =>
    /\ geminiService'.chatsCreated = geminiService.chatsCreated
    /\ Len(geminiService'.chatInstances[CalledSession]) = 1
    /\ geminiService'.chatInstances[CalledSession][1].serial
         = geminiService.chatInstances[CalledSession][1].serial
    /\ geminiService'.chatInstances[CalledSession][1].history
         = geminiService.chatInstances[CalledSession][1].history
ContextBuiltOnlyWhenAbsent ==
  geminiService'.chatsCreated # geminiService.chatsCreated =>
    /\ GenerateCalled
    /\ geminiService.chatInstances[CalledSession] = << >>
    /\ geminiService'.chatsCreated = geminiService.chatsCreated + 1
    /\ geminiService'.chatInstances[CalledSession] =
         <<[serial |-> geminiService'.chatsCreated,
            history |-> convertMessagesToGeminiHistory(
                          SubSeq(geminiService'.lastCall.messages, 1,
                                 Len(geminiService'.lastCall.messages) - 1)),
            sent |-> IF geminiService'.lastCall.outcome = "stream" THEN 1 ELSE 0]>>
OtherSessionsKept ==
  GenerateCalled =>
    \A sessionId \in ServiceSessionIds \ {CalledSession} :
      geminiService'.chatInstances[sessionId] = geminiService.chatInstances[sessionId]
FailedCheckKeepsCache ==
  (GenerateCalled /\ geminiService'.lastCall.outcome \in {"throw:lastNotUser", "throw:noParts"}) =>
    geminiService'.chatInstances = geminiService.chatInstances
ServiceCacheStep ==
  /\ CachedContextReused
  /\ ContextBuiltOnlyWhenAbsent
  /\ OtherSessionsKept
  /\ FailedCheckKeepsCache
ServiceCacheDiscipline == [][ServiceCacheStep]_vars
ServiceReuseAndRebuild ==
  [][CachedContextReused /\ ContextBuiltOnlyWhenAbsent /\ OtherSessionsKept]_vars

====
